---- MODULE Spec2Model ----
(***************************************************************************)
(* A model of the Telegram -> GitHub upload bot (src/main.py,              *)
(* src/github_handler.py, src/config.py).                                  *)
(*                                                                         *)
(* Chat events are dispatched one at a time (the Application is built      *)
(* without concurrent updates), so a handler runs to completion before the *)
(* next event is looked at.  Short handlers are one action; the two        *)
(* archive workflows are stepped through their awaits with a program       *)
(* counter, so that the order of the remote calls is visible.              *)
(*                                                                         *)
(* Texts are sequences of tokens: a name such as demo.zip is               *)
(* <<"demo", ".zip">>, so that endswith and replace act on the text.       *)
(* A dict is a function whose DOMAIN is the set of keys present.           *)
(***************************************************************************)
EXTENDS Integers, Sequences, FiniteSets, TLC

VARIABLES
    now,                \* time.time(), in seconds
    last_message_time,  \* TelegramBot.last_message_time: user id -> time
    user_data,          \* context.user_data, one dict per user id
    upload_counter,     \* the module global upload_counter
    username,           \* GitHubHandler.username (cache of the login)
    repos,              \* remote: the names of the repositories that exist
    files,              \* remote: repository name -> (path -> content hash)
    pc,                 \* position of the running handler, "idle" between events
    ev,                 \* the event being handled (the last one when idle)
    sent,               \* chat messages sent while handling ev
    status,             \* text of the last message sent or edited for ev
    calls,              \* remote API calls issued while handling ev, in order
    wf                  \* locals of the running archive workflow

vars == <<now, last_message_time, user_data, upload_counter, username, repos,
          files, pc, ev, sent, status, calls, wf>>

----------------------------------------------------------------------------
(* Bounds of the model *)

\* The clock stops advancing here.
MaxTime == 6

----------------------------------------------------------------------------
(* Configuration and inputs *)

OWNER_ID == 1

\* update.effective_user is None
NoUser == 0

\* no user, the owner and a stranger
Users == {NoUser, OWNER_ID, OWNER_ID + 1}

rate_limit_seconds == 2

MAX_FILE_SIZE == 20 * 1024 * 1024

None == "None"

Login == "login"

\* Repository names the operator types or that file names give.
Demo == <<"demo">>
AB == <<"a", "b">>
Tmpl == <<"my", "template">>

RepoNames == {Demo, AB, Tmpl}

----------------------------------------------------------------------------
(* dict helpers *)

EmptyDict == [k \in {} |-> None]

DictGet(d, k, default) == IF k \in DOMAIN d THEN d[k] ELSE default

DictPop(d, k) == [x \in (DOMAIN d) \ {k} |-> d[x]]

DictSet(d, k, v) == [x \in (DOMAIN d) \cup {k} |-> IF x = k THEN v ELSE d[x]]

----------------------------------------------------------------------------
(* Texts *)

\* str.lower() on one token
LowerTok(t) == IF t \in {"Template", "TEMPLATE"} THEN "template" ELSE t

\* str.lower() on a word (a sequence of tokens)
LowerWord(w) == [i \in 1..Len(w) |-> LowerTok(w[i])]

\* `sub in text`, where text is the sequence of words of a message
TextContains(text, sub) ==
    \E i \in 1..Len(text) : \E j \in 1..Len(text[i]) : LowerTok(text[i][j]) = sub

\* name.endswith('.zip')
EndsWithZip(name) == Len(name) > 0 /\ name[Len(name)] = ".zip"

\* name.replace('.zip', ''): every occurrence is removed
RECURSIVE ReplaceZip(_)
ReplaceZip(name) ==
    IF name = <<>> THEN <<>>
    ELSE IF Head(name) = ".zip" THEN ReplaceZip(Tail(name))
    ELSE <<Head(name)>> \o ReplaceZip(Tail(name))

----------------------------------------------------------------------------
(* Events *)

FileSizes == {50 * 1024, MAX_FILE_SIZE, MAX_FILE_SIZE + 1}

README == <<"README.md">>

\* What the uploaded file holds.  bad: the file is not a zip archive; tree:
\* the files and directories its members name, a path being a sequence of
\* names and a tree mapping each path to "dir" or to the content of the
\* file; root: a member names the archive root itself ("./").
Zip(tree) == [bad |-> FALSE, root |-> FALSE, tree |-> tree]

InvalidArchive == [bad |-> TRUE, root |-> FALSE, tree |-> EmptyDict]

EmptyZip == Zip(EmptyDict)

FlatZip == Zip(<<"main.py">> :> "data")

ReadmeZip == Zip((<<"main.py">> :> "data") @@ (README :> "own_readme"))

WrappedZip ==
    Zip((<<"demo-v2">> :> "dir") @@ (<<"demo-v2", "main.py">> :> "data")
        @@ (<<"demo-v2", "src">> :> "dir")
        @@ (<<"demo-v2", "src", "util.py">> :> "data"))

NestedZip ==
    Zip((<<"A">> :> "dir") @@ (<<"A", "B">> :> "dir") @@ (<<"A", "B", "f.py">> :> "data"))

SelfNamedZip == Zip((<<"D">> :> "dir") @@ (<<"D", "D">> :> "data"))

Archives ==
    {InvalidArchive, EmptyZip, FlatZip, ReadmeZip, WrappedZip, NestedZip, SelfNamedZip}

Doc(n, s, a) == [file_name |-> n, file_size |-> s, archive |-> a]

\* Every archive under the usual name and size, the sizes around the cap
\* and a name that does not end in .zip with a plain archive, and a file that
\* is no archive at all.
Documents ==
    {Doc(<<"demo", ".zip">>, 50 * 1024, a) : a \in Archives}
    \cup {Doc(<<"demo", ".zip">>, s, FlatZip) : s \in FileSizes}
    \cup {Doc(<<"notes", ".txt">>, 50 * 1024, a) : a \in {FlatZip, InvalidArchive}}
    \cup {Doc(<<"a", ".zip", "b", ".zip">>, 50 * 1024, FlatZip)}

\* update.message.document of an event that carries no file
NoDoc == Doc(<<>>, 0, InvalidArchive)

\* session is not a field of the update: it remembers context.user_data as
\* the handler found it.
Event(u, k, a, d) ==
    [user |-> u, kind |-> k, args |-> a, doc |-> d, session |-> EmptyDict]

NoEvent == Event(NoUser, "none", <<>>, NoDoc)

NameArgs == {<<>>, <<Demo>>, <<AB>>}

UploadArgs == {<<>>, << <<"Template">> >>, << <<"now">> >>}

UpdRepoArgs == {<<>>, <<Demo>>, <<Tmpl>>, <<Demo, <<"template">> >>,
                << <<"template">>, Demo >>}

Texts == {<< <<"upload">>, <<"help">> >>, << <<"project">> >>, << <<"hi">> >>}

----------------------------------------------------------------------------
(* Authorization gate *)

\* self.last_message_time.get(user_id, 0)
LastTime(u) == DictGet(last_message_time, u, 0)

\* the gate without the owner check
GatePasses_NoOwnerCheck(u) ==
    /\ u # NoUser
    /\ ~((now - LastTime(u)) < rate_limit_seconds)

\* the value _is_authorized_and_not_rate_limited returns
GatePasses(u) ==
    /\ u # NoUser
    /\ u = OWNER_ID
    /\ ~((now - LastTime(u)) < rate_limit_seconds)

\* the gate moving the owner's timestamp before the cooldown test
GateTimes_StampFirst(u) ==
    IF u = OWNER_ID THEN DictSet(last_message_time, u, now) ELSE last_message_time

\* the gate recording every caller it has seen
GateTimes_StampsAnyone(u) ==
    IF u # NoUser /\ ~((now - LastTime(u)) < rate_limit_seconds)
    THEN DictSet(last_message_time, u, now)
    ELSE last_message_time

\* self.last_message_time after the call
GateTimes(u) ==
    IF GatePasses(u) THEN DictSet(last_message_time, u, now) ELSE last_message_time

----------------------------------------------------------------------------
(* Remote repository client (src/github_handler.py).  Each operation maps   *)
(* the client-and-remote state g and the health of the HTTP exchange (ok)   *)
(* to the new state and the value returned.                                 *)

\* one HTTP exchange with the remote, ok being whether it answered with success
Call(op, repo, path, sha, ok) ==
    [op |-> op, repo |-> repo, path |-> path, sha |-> sha, ok |-> ok]

G(cs) == [username |-> username, repos |-> repos, files |-> files, calls |-> cs]

Logged(g, c) == [g EXCEPT !.calls = Append(@, c)]

Ret(g, v) == [g |-> g, ret |-> v]

get_username(g, ok) ==
    IF g.username # None THEN Ret(g, g.username)
    ELSE LET g1 == Logged(g, Call("get_user", <<>>, <<>>, None, ok)) IN
         IF ok THEN Ret([g1 EXCEPT !.username = Login], Login)
         ELSE Ret(g1, None)

create_repository(g, repo_name, ok) ==
    LET created == ok /\ repo_name # <<>> /\ repo_name \notin g.repos
        g1 == Logged(g, Call("create", repo_name, <<>>, None, created)) IN
    IF created
    THEN Ret([g1 EXCEPT !.repos = @ \cup {repo_name},
                        !.files[repo_name] = EmptyDict], TRUE)
    ELSE Ret(g1, FALSE)

get_repositories(g, ok) ==
    LET g1 == Logged(g, Call("list", <<>>, <<>>, None, ok)) IN
    IF ok THEN Ret(g1, g.repos) ELSE Ret(g1, {})

delete_repository(g, repo_name, okUser, ok) ==
    LET u == get_username(g, okUser) IN
    IF u.ret = None THEN Ret(u.g, FALSE)
    ELSE LET deleted == ok /\ repo_name \in g.repos
             g1 == Logged(u.g, Call("delete_repo", repo_name, <<>>, None, deleted)) IN
         IF deleted
         THEN Ret([g1 EXCEPT !.repos = @ \ {repo_name},
                             !.files[repo_name] = EmptyDict], TRUE)
         ELSE Ret(g1, FALSE)

\* the value is the truth value of the result: TRUE for the repository's
\* metadata, FALSE for None
get_repository_info(g, repo_name, okUser, ok) ==
    LET u == get_username(g, okUser) IN
    IF u.ret = None THEN Ret(u.g, FALSE)
    ELSE LET found == ok /\ repo_name \in g.repos
             g1 == Logged(u.g, Call("get_repo", repo_name, <<>>, None, found)) IN
         Ret(g1, found)

set_repository_visibility(g, repo_name, priv, okUser, ok) ==
    LET u == get_username(g, okUser) IN
    IF u.ret = None THEN Ret(u.g, FALSE)
    ELSE LET changed == ok /\ repo_name \in g.repos
             g1 == Logged(u.g, Call(IF priv THEN "set_private" ELSE "set_public",
                                    repo_name, <<>>, None, changed)) IN
         Ret(g1, changed)

----------------------------------------------------------------------------
(* Handlers that finish in one step (src/main.py) *)

Commit(g) ==
    /\ username' = g.username
    /\ repos' = g.repos
    /\ files' = g.files
    /\ calls' = g.calls

Quiet == calls' = <<>> /\ UNCHANGED <<username, repos, files>>

Say(n, text) == sent' = n /\ status' = text

\* a handler that started no workflow returns
Return == pc' = "done" /\ UNCHANGED wf

\* the gate turning an event down and disarming the owner's session
Dropped_Disarms ==
    /\ Say(0, None)
    /\ Quiet
    /\ Return
    /\ user_data' = [user_data EXCEPT ![OWNER_ID] = DictPop(@, "mode")]
    /\ UNCHANGED upload_counter

\* the handler returned at the gate: nothing is sent and nothing is called
Dropped ==
    /\ Say(0, None)
    /\ Quiet
    /\ Return
    /\ UNCHANGED <<user_data, upload_counter>>

\* updates handled concurrently: a handler starts while another is suspended
Begin_Concurrent(e) ==
    /\ ev' = [e EXCEPT !.session = user_data[e.user]]
    /\ last_message_time' = GateTimes(e.user)
    /\ UNCHANGED now

\* an event is taken from the queue and its handler runs the gate
Begin(e) ==
    /\ pc = "idle"
    /\ ev' = [e EXCEPT !.session = user_data[e.user]]
    /\ last_message_time' = GateTimes(e.user)
    /\ UNCHANGED now

start_command(u) ==
    /\ Begin(Event(u, "start", <<>>, NoDoc))
    /\ IF ~GatePasses(u) THEN Dropped
       ELSE /\ Say(1, "welcome")
            /\ Quiet
            /\ Return
            /\ UNCHANGED <<user_data, upload_counter>>

help_command(u) ==
    /\ Begin(Event(u, "help", <<>>, NoDoc))
    /\ IF ~GatePasses(u) THEN Dropped
       ELSE /\ Say(1, "help")
            /\ Quiet
            /\ Return
            /\ UNCHANGED <<user_data, upload_counter>>

\* upload_command leaving the target of an armed refresh in the session
UploadArmed_KeepsTarget(d, args) ==
    LET d1 == DictPop(d, "mode")
        use_template == (Len(args) = 1 /\ LowerWord(args[1]) = <<"template">>)
    IN DictSet(DictSet(d1, "use_template", use_template), "mode", "upload")

\* context.user_data after upload_command
UploadArmed(d, args) ==
    LET d1 == DictPop(DictPop(d, "mode"), "update_repo_name")
        use_template == (Len(args) = 1 /\ LowerWord(args[1]) = <<"template">>)
    IN DictSet(DictSet(d1, "use_template", use_template), "mode", "upload")

upload_command(u, args) ==
    /\ Begin(Event(u, "upload", args, NoDoc))
    /\ IF ~GatePasses(u) THEN Dropped
       ELSE /\ user_data' = [user_data EXCEPT ![u] = UploadArmed(@, args)]
            /\ Say(1, IF user_data'[u]["use_template"] THEN "upload_template_active"
                      ELSE "upload_active")
            /\ Quiet
            /\ Return
            /\ UNCHANGED upload_counter

info_command(u) ==
    /\ Begin(Event(u, "info", <<>>, NoDoc))
    /\ IF ~GatePasses(u) THEN Dropped
       ELSE \E ok \in BOOLEAN :
            LET r == get_repositories(G(<<>>), ok) IN
            /\ Commit(r.g)
            /\ Say(1, IF r.ret # {} THEN "stats" ELSE "no_repositories")
            /\ Return
            /\ UNCHANGED <<user_data, upload_counter>>

\* delete_command going on without a name
delete_command_NoUsage(u, args) ==
    /\ Begin(Event(u, "del", args, NoDoc))
    /\ IF ~GatePasses(u) THEN Dropped
       ELSE /\ \E okUser, ok \in BOOLEAN :
                    LET r == delete_repository(G(<<>>), IF args = <<>> THEN <<>> ELSE args[1],
                                               okUser, ok) IN
                    /\ Commit(r.g)
                    /\ Say(1, IF r.ret THEN "deleted" ELSE "delete_failed")
            /\ Return
            /\ UNCHANGED <<user_data, upload_counter>>

delete_command(u, args) ==
    /\ Begin(Event(u, "del", args, NoDoc))
    /\ IF ~GatePasses(u) THEN Dropped
       ELSE /\ IF args = <<>> THEN Say(1, "usage_del") /\ Quiet
               ELSE \E okUser, ok \in BOOLEAN :
                    LET r == delete_repository(G(<<>>), args[1], okUser, ok) IN
                    /\ Commit(r.g)
                    /\ Say(1, IF r.ret THEN "deleted" ELSE "delete_failed")
            /\ Return
            /\ UNCHANGED <<user_data, upload_counter>>

_toggle_repo_visibility(args, priv) ==
    IF args = <<>> THEN Say(1, IF priv THEN "usage_priv" ELSE "usage_pblc") /\ Quiet
    ELSE \E okUser, okInfo, ok \in BOOLEAN :
         LET i == get_repository_info(G(<<>>), args[1], okUser, okInfo) IN
         IF ~i.ret THEN Commit(i.g) /\ Say(1, "not_found")
         ELSE LET r == set_repository_visibility(i.g, args[1], priv, okUser, ok) IN
              /\ Commit(r.g)
              /\ Say(1, IF r.ret THEN "visibility_changed" ELSE "visibility_failed")

private_command(u, args) ==
    /\ Begin(Event(u, "priv", args, NoDoc))
    /\ IF ~GatePasses(u) THEN Dropped
       ELSE /\ _toggle_repo_visibility(args, TRUE)
            /\ Return
            /\ UNCHANGED <<user_data, upload_counter>>

public_command(u, args) ==
    /\ Begin(Event(u, "pblc", args, NoDoc))
    /\ IF ~GatePasses(u) THEN Dropped
       ELSE /\ _toggle_repo_visibility(args, FALSE)
            /\ Return
            /\ UNCHANGED <<user_data, upload_counter>>

project_info_command(u, args) ==
    /\ Begin(Event(u, "inp", args, NoDoc))
    /\ IF ~GatePasses(u) THEN Dropped
       ELSE /\ IF args = <<>> THEN Say(1, "usage_inp") /\ Quiet
               ELSE \E okUser, ok \in BOOLEAN :
                    LET i == get_repository_info(G(<<>>), args[1], okUser, ok) IN
                    /\ Commit(i.g)
                    /\ Say(1, IF i.ret THEN "repo_info" ELSE "not_found")
            /\ Return
            /\ UNCHANGED <<user_data, upload_counter>>

\* update_repo_command arming whatever the existence check said
UpdateArmed_Unchecked(d, args, found) ==
    LET d1 == DictPop(DictPop(d, "mode"), "update_repo_name") IN
    IF args = <<>> THEN d1
    ELSE DictSet(DictSet(DictSet(d1, "mode", "update"),
                         "update_repo_name", args[1]),
                 "use_template", TextContains(args, "template"))

\* update_repo_command clearing the session only once it has found the
\* repository
UpdateArmed_KeepsOnFailure(d, args, found) ==
    IF args = <<>> \/ ~found THEN d
    ELSE DictSet(DictSet(DictSet(DictPop(DictPop(d, "mode"), "update_repo_name"),
                                 "mode", "update"),
                         "update_repo_name", args[1]),
                 "use_template", TextContains(args, "template"))

\* update_repo_command leaving an armed create mode as it is
UpdateArmed_FirstWins(d, args, found) ==
    IF DictGet(d, "mode", None) = "upload" THEN d
    ELSE LET d1 == DictPop(DictPop(d, "mode"), "update_repo_name") IN
         IF args = <<>> \/ ~found THEN d1
         ELSE DictSet(DictSet(DictSet(d1, "mode", "update"),
                              "update_repo_name", args[1]),
                      "use_template", TextContains(args, "template"))

\* context.user_data after update_repo_command, found being the outcome of
\* the existence check
UpdateArmed(d, args, found) ==
    LET d1 == DictPop(DictPop(d, "mode"), "update_repo_name") IN
    IF args = <<>> \/ ~found THEN d1
    ELSE DictSet(DictSet(DictSet(d1, "mode", "update"),
                         "update_repo_name", args[1]),
                 "use_template", TextContains(args, "template"))

update_repo_command(u, args) ==
    /\ Begin(Event(u, "upd_repo", args, NoDoc))
    /\ IF ~GatePasses(u) THEN Dropped
       ELSE /\ IF args = <<>>
               THEN /\ user_data' = [user_data EXCEPT ![u] = UpdateArmed(@, args, FALSE)]
                    /\ Say(1, "usage_upd_repo")
                    /\ Quiet
               ELSE \E okUser, ok \in BOOLEAN :
                    LET i == get_repository_info(G(<<>>), args[1], okUser, ok) IN
                    /\ Commit(i.g)
                    /\ user_data' = [user_data EXCEPT ![u] = UpdateArmed(@, args, i.ret)]
                    /\ Say(1, IF i.ret THEN "update_active" ELSE "not_found")
            /\ Return
            /\ UNCHANGED upload_counter

handle_message(u, text) ==
    /\ Begin(Event(u, "text", text, NoDoc))
    /\ IF ~GatePasses(u) THEN Dropped
       ELSE /\ Say(1, IF \E w \in {"help", "bantuan", "gimana", "cara"} :
                            TextContains(text, w)
                      THEN "help_hint"
                      ELSE IF \E w \in {"upload", "project"} : TextContains(text, w)
                      THEN "upload_hint"
                      ELSE "not_understood")
            /\ Quiet
            /\ Return
            /\ UNCHANGED <<user_data, upload_counter>>

----------------------------------------------------------------------------
(* Directory trees: a path is a sequence of names, a tree maps each path    *)
(* to "dir" or to the content of the file.                                  *)

Perms(S) ==
    {q \in [1..Cardinality(S) -> S] : \A i, j \in 1..Cardinality(S) : q[i] = q[j] => i = j}

IsPrefix(p, q) == Len(p) <= Len(q) /\ SubSeq(q, 1, Len(p)) = p

\* os.listdir(dir): the paths of the entries directly in dir
ListDir(tree, dir) == {p \in DOMAIN tree : Len(p) = Len(dir) + 1 /\ IsPrefix(dir, p)}

\* what zip_ref.extractall leaves in extract_dir
ArchiveTree(a) == a.tree

\* zipfile.ZipFile(zip_path) raises BadZipFile
BadZipFile(a) == a.bad

\* extractall creates extract_dir only when a member makes it do so
ExtractDirExists(a) == a.root \/ ArchiveTree(a) # EmptyDict

\* the test without its os.path.isdir
SingleTopDir_AnyEntry(tree) == Cardinality(ListDir(tree, <<>>)) = 1

\* len(contents) == 1 and os.path.isdir(contents[0])
SingleTopDir(tree) ==
    /\ Cardinality(ListDir(tree, <<>>)) = 1
    /\ \A p \in ListDir(tree, <<>>) : tree[p] = "dir"

_check_zip_structure(tree) == ~SingleTopDir(tree)

\* shutil.move(src, dst) finds dst, the wrapper itself, in the way
MoveCollides(tree) ==
    SingleTopDir(tree) /\ \E p \in ListDir(tree, <<>>) : (p \o p) \in DOMAIN tree

\* _fix_zip_structure leaving the wrapper in place
_fix_zip_structure_Noop(tree) == tree

\* _fix_zip_structure hoisting until the top level is no single directory
RECURSIVE _fix_zip_structure_Fixpoint(_)
_fix_zip_structure_Fixpoint(tree) ==
    IF Cardinality(ListDir(tree, <<>>)) # 1 THEN tree
    ELSE IF \E p \in ListDir(tree, <<>>) : tree[p] # "dir" THEN tree
    ELSE LET under == {p \in DOMAIN tree : Len(p) > 1} IN
         _fix_zip_structure_Fixpoint(
             [q \in {Tail(p) : p \in under} |-> tree[CHOOSE p \in under : Tail(p) = q]])

\* the tree after _fix_zip_structure moved the wrapper's entries up and
\* removed the wrapper
_fix_zip_structure(tree) ==
    IF ~SingleTopDir(tree) THEN tree
    ELSE LET under == {p \in DOMAIN tree : Len(p) > 1} IN
         [q \in {Tail(p) : p \in under} |-> tree[CHOOSE p \in under : Tail(p) = q]]

----------------------------------------------------------------------------
(* The description generator (src/readme_generator.py).  File names are     *)
(* whole strings, so what the code reads off a name, its suffix and its     *)
(* place in the sorting order, is given by tables over the names in use.    *)

\* the suffix that f.endswith tests for, for the names in use
Suffix(name) ==
    CASE name \in {"main.py", "app.py", "manage.py", "util.py", "f.py", "y.py"} -> ".py"
      [] name = "Main.java" -> ".java"
      [] name = "x.c" -> ".c"
      [] name = "x.cpp" -> ".cpp"
      [] name = "y.go" -> ".go"
      [] name = "z.rs" -> ".rs"
      [] name = "i.php" -> ".php"
      [] name = "r.rb" -> ".rb"
      [] OTHER -> ""

\* the names in use in the order of their code points, which is the order
\* sorted() puts them in; no directory name among them continues another
\* one, so that paths compare name by name as their joined strings do
NameOrder ==
    <<"A", "B", "D", "Main.java", "README.md", "demo-v2", "docs", "f", "f.py",
      "g", "i.php", "lib", "main.py", "manage.py", "package.json", "r.rb",
      "requirements.txt", "src", "util.py", "x.c", "x.cpp", "y.go", "y.py", "z.rs">>

Rank(name) == CHOOSE i \in 1..Len(NameOrder) : NameOrder[i] = name

\* p < q for two relative paths as strings
RECURSIVE PathLess(_, _)
PathLess(p, q) ==
    IF p = <<>> THEN q # <<>>
    ELSE IF q = <<>> THEN FALSE
    ELSE IF Head(p) = Head(q) THEN PathLess(Tail(p), Tail(q))
    ELSE Rank(Head(p)) < Rank(Head(q))

\* sorted(S) for a set of paths
Sorted(S) ==
    CHOOSE q \in Perms(S) : \A i, j \in 1..Cardinality(S) : i < j => PathLess(q[i], q[j])

\* analysis['files']: the relative paths of the files os.walk finds
ProjectFiles(tree) == {p \in DOMAIN tree : tree[p] # "dir"}

\* os.path.basename
Basename(p) == p[Len(p)]

\* os.path.dirname
Dirname(p) == SubSeq(p, 1, Len(p) - 1)

Basenames(tree) == {Basename(p) : p \in ProjectFiles(tree)}

\* framework_indicators
Indicators ==
    [n \in {"package.json", "requirements.txt", "Pipfile", "setup.py", "composer.json",
            "Gemfile", "go.mod", "Cargo.toml", "pom.xml", "build.gradle",
            "pubspec.yaml", "vue.config.js", "angular.json", "next.config.js",
            "nuxt.config.js", "gatsby-config.js", "webpack.config.js",
            "vite.config.js", "tsconfig.json", "tailwind.config.js",
            "postcss.config.js"} |->
        CASE n = "package.json" -> {"Node.js", "npm"}
          [] n \in {"requirements.txt", "setup.py"} -> {"Python"}
          [] n = "Pipfile" -> {"Python", "Pipenv"}
          [] n = "composer.json" -> {"PHP", "Composer"}
          [] n = "Gemfile" -> {"Ruby"}
          [] n = "go.mod" -> {"Go"}
          [] n = "Cargo.toml" -> {"Rust"}
          [] n = "pom.xml" -> {"Java", "Maven"}
          [] n = "build.gradle" -> {"Java", "Gradle"}
          [] n = "pubspec.yaml" -> {"Dart", "Flutter"}
          [] n = "vue.config.js" -> {"Vue.js"}
          [] n = "angular.json" -> {"Angular"}
          [] n = "next.config.js" -> {"Next.js"}
          [] n = "nuxt.config.js" -> {"Nuxt.js"}
          [] n = "gatsby-config.js" -> {"Gatsby"}
          [] n = "webpack.config.js" -> {"Webpack"}
          [] n = "vite.config.js" -> {"Vite"}
          [] n = "tsconfig.json" -> {"TypeScript"}
          [] n = "tailwind.config.js" -> {"Tailwind CSS"}
          [] OTHER -> {"PostCSS"}]

\* the frameworks named by the presence of a file
Indicated(tree) == UNION {Indicators[n] : n \in Basenames(tree) \cap DOMAIN Indicators}

\* framework_packages, in the order of the dict; a key is a sequence of the
\* pieces a name is cut into
framework_packages ==
    << <<"react">> :> "React", <<"vue">> :> "Vue.js", <<"angular">> :> "Angular",
       <<"express">> :> "Express.js", <<"koa">> :> "Koa.js", <<"fastify">> :> "Fastify",
       <<"nest">> :> "NestJS", <<"svelte">> :> "Svelte",
       <<"solid", "-", "js">> :> "Solid.js", <<"lit">> :> "Lit",
       <<"bootstrap">> :> "Bootstrap", <<"bulma">> :> "Bulma",
       <<"material", "-", "ui">> :> "Material-UI",
       <<"ant", "-", "design">> :> "Ant Design", <<"chakra", "-", "ui">> :> "Chakra UI" >>

PackageKey(i) == CHOOSE k \in DOMAIN framework_packages[i] : TRUE

\* `package in dep`
InName(package, dep) ==
    \E i \in 1..Len(dep) :
        i + Len(package) - 1 <= Len(dep) /\ SubSeq(dep, i, i + Len(package) - 1) = package

\* what a package.json of the given content declares: the names under
\* dependencies and devDependencies
Declared(content) ==
    CASE content = "deps_react_bootstrap" ->
             {<<"react", "-", "bootstrap">>, <<"lodash">>}
      [] content = "deps_mixed" ->
             {<<"React">>, <<"@", "angular", "/", "core">>, <<"vue">>, <<"vue", "-", "router">>}
      [] OTHER -> {}

\* json.load raises, or the document is no object
Unparseable(content) == content = "not_json"

PackageJsons == {"not_json", "deps_react_bootstrap", "deps_mixed", "data"}

\* the frameworks a dependency names under first-match-wins
FromPackage_FirstMatch(tree) ==
    IF <<"package.json">> \notin ProjectFiles(tree) THEN {}
    ELSE IF Unparseable(tree[<<"package.json">>]) THEN {}
    ELSE LET Matches(dep) == {i \in 1..Len(framework_packages) : InName(PackageKey(i), dep)}
             First(dep) == CHOOSE i \in Matches(dep) : \A j \in Matches(dep) : i <= j
         IN {framework_packages[First(dep)][PackageKey(First(dep))] :
                 dep \in {d \in Declared(tree[<<"package.json">>]) : Matches(d) # {}}}

\* the frameworks the package.json at the root of the project names
FromPackage(tree) ==
    IF <<"package.json">> \notin ProjectFiles(tree) THEN {}
    ELSE IF Unparseable(tree[<<"package.json">>]) THEN {}
    ELSE {framework_packages[i][PackageKey(i)] :
              i \in {j \in 1..Len(framework_packages) :
                        \E dep \in Declared(tree[<<"package.json">>]) :
                            InName(PackageKey(j), dep)}}

_detect_frameworks(tree) == Indicated(tree) \cup FromPackage(tree)

HasSuffix(tree, suffixes) == \E p \in ProjectFiles(tree) : Suffix(Basename(p)) \in suffixes

\* the classification with every family tried in turn
_detect_project_type_NoFallThrough(tree) ==
    IF "package.json" \in Basenames(tree) THEN "Web Application"
    ELSE IF HasSuffix(tree, {".py"}) /\ "requirements.txt" \in Basenames(tree)
    THEN "Python Application"
    ELSE IF HasSuffix(tree, {".py"}) /\ "manage.py" \in Basenames(tree)
    THEN "Django Application"
    ELSE IF HasSuffix(tree, {".py"}) /\ Basenames(tree) \cap {"app.py", "main.py"} # {}
    THEN "Python Application"
    ELSE IF HasSuffix(tree, {".java"}) THEN "Java Application"
    ELSE IF HasSuffix(tree, {".cpp", ".c"}) THEN "C/C++ Application"
    ELSE IF HasSuffix(tree, {".go"}) THEN "Go Application"
    ELSE IF HasSuffix(tree, {".rs"}) THEN "Rust Application"
    ELSE IF HasSuffix(tree, {".php"}) THEN "PHP Application"
    ELSE IF HasSuffix(tree, {".rb"}) THEN "Ruby Application"
    ELSE "Application"

_detect_project_type(tree) ==
    IF "package.json" \in Basenames(tree) THEN "Web Application"
    ELSE IF HasSuffix(tree, {".py"})
    THEN (IF "requirements.txt" \in Basenames(tree) THEN "Python Application"
          ELSE IF "manage.py" \in Basenames(tree) THEN "Django Application"
          ELSE IF Basenames(tree) \cap {"app.py", "main.py"} # {} THEN "Python Application"
          ELSE "Application")
    ELSE IF HasSuffix(tree, {".java"}) THEN "Java Application"
    ELSE IF HasSuffix(tree, {".cpp", ".c"}) THEN "C/C++ Application"
    ELSE IF HasSuffix(tree, {".go"}) THEN "Go Application"
    ELSE IF HasSuffix(tree, {".rs"}) THEN "Rust Application"
    ELSE IF HasSuffix(tree, {".php"}) THEN "PHP Application"
    ELSE IF HasSuffix(tree, {".rb"}) THEN "Ruby Application"
    ELSE "Application"

\* the lines of the Project Structure block: the directories, then the
\* files of the root
Structure(tree) ==
    [dirs  |-> Sorted({Dirname(p) : p \in {q \in ProjectFiles(tree) : Len(q) > 1}}),
     files |-> Sorted({p \in ProjectFiles(tree) : Len(p) = 1})]

\* what a README.md document says, as far as it depends on the project
Readme(kind, type, frameworks, structure) ==
    [kind |-> kind, project_type |-> type, frameworks |-> frameworks,
     structure |-> structure]

\* no document was written
NoReadme == Readme("none", None, {}, [dirs |-> <<>>, files |-> <<>>])

generate_readme(tree) ==
    Readme("generated", _detect_project_type(tree), _detect_frameworks(tree),
           Structure(tree))

\* readme_content of the README.md step
ReadmeContent(tree, use_template, fixed) ==
    IF use_template THEN generate_readme(tree)
    ELSE IF README \notin DOMAIN tree
    THEN Readme(fixed, None, {}, [dirs |-> <<>>, files |-> <<>>])
    ELSE NoReadme

\* the README.md step never touching a README.md the archive brought
WithReadme_KeepsSupplied(tree, use_template, fixed) ==
    IF README \in DOMAIN tree THEN tree
    ELSE DictSet(tree, README, IF use_template THEN "template" ELSE fixed)

\* the README.md step of both workflows; fixed is the text of the basic README
WithReadme(tree, use_template, fixed) ==
    IF use_template THEN DictSet(tree, README, "template")
    ELSE IF README \notin DOMAIN tree THEN DictSet(tree, README, fixed)
    ELSE tree

\* open(readme_path, 'w') on a directory raises
ReadmeWriteFails(tree, use_template) ==
    use_template /\ README \in DOMAIN tree /\ tree[README] = "dir"

LocalFiles(tree, dir) == {p \in ListDir(tree, dir) : tree[p] # "dir"}

LocalDirs(tree, dir) == {p \in ListDir(tree, dir) : tree[p] = "dir"}

\* the orders in which os.walk can yield the files under dir: the files of
\* a directory first, then each subdirectory in turn
RECURSIVE WalkSeqs(_, _), SubWalks(_, _)
WalkSeqs(tree, dir) ==
    {f \o r : f \in Perms(LocalFiles(tree, dir)),
              r \in UNION {SubWalks(tree, ds) : ds \in Perms(LocalDirs(tree, dir))}}
SubWalks(tree, ds) ==
    IF ds = <<>> THEN {<<>>}
    ELSE {a \o b : a \in WalkSeqs(tree, Head(ds)), b \in SubWalks(tree, Tail(ds))}

----------------------------------------------------------------------------
(* Remote file operations *)

\* the sets of entries the contents API lists for path: files directly
\* under it and the directories that hold files further down
RemoteEntries(fs, path) ==
    {[path |-> SubSeq(p, 1, Len(path) + 1),
      type |-> IF Len(p) = Len(path) + 1 THEN "file" ELSE "dir",
      sha |-> IF Len(p) = Len(path) + 1 THEN fs[p] ELSE None] :
        p \in {q \in DOMAIN fs : Len(q) > Len(path) /\ IsPrefix(path, q)}}

\* ok is whether the remote answers 200 or 404 rather than an error; listing
\* is the order of the entries in a 200 answer (empty for a 404).  The value
\* is the list of entries; None is given as the empty list, both being falsy,
\* which is all the caller tests.
get_repository_contents(g, repo_name, path, okUser, ok, listing) ==
    LET u == get_username(g, okUser) IN
    IF u.ret = None THEN Ret(u.g, <<>>)
    ELSE LET g1 == Logged(u.g, Call("get_tree", repo_name, path, None, ok)) IN
         IF ~ok THEN Ret(g1, <<>>)
         ELSE Ret(g1, listing)

Listings(g, repo_name, path) ==
    IF repo_name \in g.repos THEN Perms(RemoteEntries(g.files[repo_name], path))
    ELSE {<<>>}

delete_file(g, repo_name, file_path, sha, okUser, ok) ==
    LET u == get_username(g, okUser) IN
    IF u.ret = None THEN Ret(u.g, FALSE)
    ELSE LET deleted == /\ ok
                         /\ repo_name \in g.repos
                         /\ file_path \in DOMAIN g.files[repo_name]
                         /\ g.files[repo_name][file_path] = sha
             g1 == Logged(u.g, Call("delete_file", repo_name, file_path, sha, deleted)) IN
         IF deleted
         THEN Ret([g1 EXCEPT !.files[repo_name] = DictPop(@, file_path)], TRUE)
         ELSE Ret(g1, FALSE)

\* one session.put of upload_files
put_file(g, repo_name, path, content, ok) ==
    LET stored == ok /\ repo_name \in g.repos
        g1 == Logged(g, Call("put_file", repo_name, path, content, stored)) IN
    IF stored
    THEN Ret([g1 EXCEPT !.files[repo_name] = DictSet(@, path, content)], TRUE)
    ELSE Ret(g1, FALSE)

----------------------------------------------------------------------------
(* The archive workflows: handle_document (create) and run_update_workflow  *)
(* (refresh), one action per await at which the remote or the chat file     *)
(* server is asked.                                                         *)

\* remote_before is not a local of the code: it remembers what the target
\* repository held when a refresh workflow started.
WfIdle ==
    [kind |-> "none", repo_name |-> <<>>, use_template |-> FALSE,
     temp_dir |-> FALSE, tree |-> EmptyDict, remote_before |-> EmptyDict,
     files_to_delete |-> <<>>, stack |-> <<>>, pending |-> <<>>, deleted |-> 0,
     files_to_upload |-> <<>>, success_count |-> 0, error |-> None,
     readme_content |-> NoReadme]

\* handle_document taking a session without a mode for an armed create
DocumentBranch_DefaultCreate(d, doc) ==
    IF DictGet(d, "mode", None) = "update"
    THEN IF "update_repo_name" \in DOMAIN d THEN "update" ELSE "missing_target"
    ELSE IF ~EndsWithZip(doc.file_name) THEN "zip_only"
    ELSE IF doc.file_size > MAX_FILE_SIZE THEN "too_large"
    ELSE "create"

\* which branch handle_document takes for the session dict d and the document
DocumentBranch(d, doc) ==
    IF DictGet(d, "mode", None) = "update"
    THEN IF "update_repo_name" \in DOMAIN d THEN "update" ELSE "missing_target"
    ELSE IF DictGet(d, "mode", None) # "upload" THEN "arm_first"
    ELSE IF ~EndsWithZip(doc.file_name) THEN "zip_only"
    ELSE IF doc.file_size > MAX_FILE_SIZE THEN "too_large"
    ELSE "create"

\* handle_document leaving the session of a create workflow in place
DocumentSession_KeepsCreate(d, doc) ==
    IF DocumentBranch(d, doc) \in {"update", "missing_target"}
    THEN DictPop(DictPop(DictPop(d, "mode"), "update_repo_name"), "use_template")
    ELSE d

\* context.user_data after handle_document
DocumentSession(d, doc) ==
    CASE DocumentBranch(d, doc) \in {"update", "missing_target"} ->
             DictPop(DictPop(DictPop(d, "mode"), "update_repo_name"), "use_template")
      [] DocumentBranch(d, doc) = "create" ->
             DictPop(DictPop(d, "mode"), "use_template")
      [] OTHER -> d

handle_document(u, doc) ==
    /\ Begin(Event(u, "document", <<>>, doc))
    /\ IF ~GatePasses(u) THEN Dropped
       ELSE LET d == user_data[u]
                branch == DocumentBranch(d, doc) IN
            /\ user_data' = [user_data EXCEPT ![u] = DocumentSession(d, doc)]
            /\ Quiet
            /\ UNCHANGED upload_counter
            /\ CASE branch = "update" ->
                        /\ Say(1, "upd_downloading")
                        /\ pc' = "download"
                        /\ wf' = [WfIdle EXCEPT !.kind = "update",
                                     !.remote_before = files[d["update_repo_name"]],
                                     !.repo_name = d["update_repo_name"],
                                     !.use_template = DictGet(d, "use_template", FALSE)]
                 [] branch = "create" ->
                        /\ Say(1, "up_downloading")
                        /\ pc' = "get_file"
                        /\ wf' = [WfIdle EXCEPT !.kind = "upload",
                                     !.repo_name = ReplaceZip(doc.file_name),
                                     !.use_template = DictGet(d, "use_template", FALSE)]
                 [] OTHER ->
                        /\ Say(1, branch)
                        /\ Return

Session == <<last_message_time, user_data>>

Remote == <<username, repos, files>>

\* the status going out as a message of its own
Edit_SendsNew(text) == status' = text /\ sent' = sent + 1

\* processing_msg.edit_text(text): the one message of the workflow shows text
Edit(text) == status' = text /\ sent' = sent

\* the step ends at an await that does not touch the chat
Silent == UNCHANGED <<sent, status>>

\* the handler returning with temp_dir left behind
Finish_KeepsTempDir(text) ==
    /\ Edit(text)
    /\ pc' = "done"
    /\ wf' = wf

\* the handler returns with final status text; the with block removes temp_dir
Finish(text) ==
    /\ Edit(text)
    /\ pc' = "done"
    /\ wf' = [wf EXCEPT !.temp_dir = FALSE]

\* the exception e leaving the handler: no reply is made for it
Fault_Unhandled(e) ==
    /\ Silent
    /\ pc' = "done"
    /\ wf' = [wf EXCEPT !.temp_dir = FALSE, !.error = e]

\* the exception e reaches the except clause of the workflow, which shows
\* str(e) in its reply; leaving the with block removes temp_dir
Fault(e) ==
    /\ Edit(IF wf.kind = "update" THEN "upd_error" ELSE "up_error")
    /\ pc' = "done"
    /\ wf' = [wf EXCEPT !.temp_dir = FALSE, !.error = e]

\* context.bot.get_file of the create workflow, before temp_dir exists
GetFile(ok) ==
    /\ pc = "get_file"
    /\ IF ok THEN Silent /\ pc' = "download" /\ wf' = wf
       ELSE Fault("TelegramError")
    /\ UNCHANGED <<now, Session, upload_counter, Remote, ev, calls>>

\* temp_dir is created and the archive is fetched into it (the refresh
\* workflow asks for the file inside the with block)
Download(okFile, ok) ==
    /\ pc = "download"
    /\ IF ok /\ (wf.kind = "upload" \/ okFile)
       THEN /\ Edit(IF wf.kind = "update" THEN "upd_extracting" ELSE "up_extracting")
            /\ pc' = "extract"
            /\ wf' = [wf EXCEPT !.temp_dir = TRUE]
       ELSE Fault("TelegramError")
    /\ UNCHANGED <<now, Session, upload_counter, Remote, ev, calls>>

\* a file that is no archive passing for an empty one
StagingFails_Late(a) == MoveCollides(ArchiveTree(a))

\* extraction and layout normalization raise
StagingFails(a) ==
    \/ BadZipFile(a)
    \/ ~ExtractDirExists(a)
    \/ MoveCollides(ArchiveTree(a))

\* the exception that extraction or layout normalization raises
StagingError(a) ==
    IF BadZipFile(a) THEN "BadZipFile"
    ELSE IF ~ExtractDirExists(a) THEN "FileNotFoundError"
    ELSE "shutil.Error"

\* extract_dir after extractall and the _check_zip_structure /
\* _fix_zip_structure pair
Staged(a) ==
    IF ~_check_zip_structure(ArchiveTree(a)) THEN _fix_zip_structure(ArchiveTree(a))
    ELSE ArchiveTree(a)

Extract ==
    /\ pc = "extract"
    /\ IF StagingFails(ev.doc.archive) THEN Fault(StagingError(ev.doc.archive))
       ELSE /\ wf' = [wf EXCEPT !.tree = Staged(ev.doc.archive), !.pending = <<>>]
            /\ Edit(IF wf.kind = "update" THEN "upd_clearing" ELSE "up_creating")
            /\ pc' = IF wf.kind = "update" THEN "find" ELSE "create"
    /\ UNCHANGED <<now, Session, upload_counter, Remote, ev, calls>>

\* find_files_recursively resumes after a listing: files of the innermost
\* listing are recorded until a directory asks for the next listing.  The
\* innermost listing is the last of stack; more tells whether a directory
\* (pending) is left to list.
RECURSIVE Advance(_, _)
Advance(stack, acc) ==
    IF stack = <<>> THEN [more |-> FALSE, stack |-> <<>>, acc |-> acc, pending |-> <<>>]
    ELSE LET top == stack[Len(stack)]
             below == SubSeq(stack, 1, Len(stack) - 1) IN
         IF top = <<>> THEN Advance(below, acc)
         ELSE LET item == Head(top)
                  rest == Append(below, Tail(top)) IN
              IF item.type = "file"
              THEN Advance(rest, Append(acc, [path |-> item.path, sha |-> item.sha]))
              ELSE IF item.type = "dir"
              THEN [more |-> TRUE, stack |-> rest, acc |-> acc, pending |-> item.path]
              ELSE Advance(rest, acc)

\* the README.md step and the edit that announces the upload
Prepare(w, fixed, text) ==
    IF ReadmeWriteFails(w.tree, w.use_template) THEN Fault("IsADirectoryError")
    ELSE /\ wf' = [w EXCEPT !.tree = WithReadme(w.tree, w.use_template, fixed),
                            !.readme_content =
                                ReadmeContent(w.tree, w.use_template, fixed)]
         /\ Edit(text)
         /\ pc' = "walk"

\* clear_repository_contents returned True
Cleared(w) == Prepare(w, "basic_update", "upd_uploading")

\* clear_repository_contents failing when it finds nothing to delete
Find_EmptyFails(okUser, ok, listing) ==
    /\ pc = "find"
    /\ LET r == get_repository_contents(G(calls), wf.repo_name, wf.pending,
                                        okUser, ok, listing)
           adv == Advance(IF r.ret = <<>> THEN wf.stack ELSE Append(wf.stack, r.ret),
                          wf.files_to_delete)
           w == [wf EXCEPT !.stack = adv.stack, !.files_to_delete = adv.acc,
                           !.pending = adv.pending]
       IN /\ Commit(r.g)
          /\ IF adv.more THEN wf' = w /\ pc' = "find" /\ Silent
             ELSE IF adv.acc = <<>> THEN Finish("upd_clear_failed")
             ELSE wf' = w /\ pc' = "delete" /\ Silent
    /\ UNCHANGED <<now, Session, upload_counter, ev>>

\* one get_repository_contents call of find_files_recursively
Find(okUser, ok, listing) ==
    /\ pc = "find"
    /\ LET r == get_repository_contents(G(calls), wf.repo_name, wf.pending,
                                        okUser, ok, listing)
           adv == Advance(IF r.ret = <<>> THEN wf.stack ELSE Append(wf.stack, r.ret),
                          wf.files_to_delete)
           w == [wf EXCEPT !.stack = adv.stack, !.files_to_delete = adv.acc,
                           !.pending = adv.pending]
       IN /\ Commit(r.g)
          /\ IF adv.more THEN wf' = w /\ pc' = "find" /\ Silent
             ELSE IF adv.acc = <<>> THEN Cleared(w)
             ELSE wf' = w /\ pc' = "delete" /\ Silent
    /\ UNCHANGED <<now, Session, upload_counter, ev>>

\* the deletion loop walking files_to_delete from its end
Delete_Reversed(okUser, ok) ==
    /\ pc = "delete"
    /\ LET item == wf.files_to_delete[Len(wf.files_to_delete) - wf.deleted]
           r == delete_file(G(calls), wf.repo_name, item.path, item.sha, okUser, ok)
           w == [wf EXCEPT !.deleted = @ + 1]
       IN /\ Commit(r.g)
          /\ IF ~r.ret THEN Finish("upd_clear_failed")
             ELSE IF w.deleted = Len(w.files_to_delete) THEN Cleared(w)
             ELSE wf' = w /\ pc' = "delete" /\ Silent
    /\ UNCHANGED <<now, Session, upload_counter, ev>>

\* the deletion loop without its break
Delete_NoBreak(okUser, ok) ==
    /\ pc = "delete"
    /\ LET item == wf.files_to_delete[wf.deleted + 1]
           r == delete_file(G(calls), wf.repo_name, item.path, item.sha, okUser, ok)
           w == [wf EXCEPT !.deleted = @ + 1]
       IN /\ Commit(r.g)
          /\ IF w.deleted = Len(w.files_to_delete)
             THEN (IF r.ret THEN Cleared(w) ELSE Finish("upd_clear_failed"))
             ELSE wf' = w /\ pc' = "delete" /\ Silent
    /\ UNCHANGED <<now, Session, upload_counter, ev>>

\* the refresh workflow going on after clear_repository_contents failed
Delete_NoAbort(okUser, ok) ==
    /\ pc = "delete"
    /\ LET item == wf.files_to_delete[wf.deleted + 1]
           r == delete_file(G(calls), wf.repo_name, item.path, item.sha, okUser, ok)
           w == [wf EXCEPT !.deleted = @ + 1]
       IN /\ Commit(r.g)
          /\ IF ~r.ret \/ w.deleted = Len(w.files_to_delete) THEN Cleared(w)
             ELSE wf' = w /\ pc' = "delete" /\ Silent
    /\ UNCHANGED <<now, Session, upload_counter, ev>>

\* the deletion loop sending the hash of the first file with every path
Delete_StaleSha(okUser, ok) ==
    /\ pc = "delete"
    /\ LET item == wf.files_to_delete[wf.deleted + 1]
           r == delete_file(G(calls), wf.repo_name, item.path, wf.files_to_delete[1].sha,
                            okUser, ok)
           w == [wf EXCEPT !.deleted = @ + 1]
       IN /\ Commit(r.g)
          /\ IF ~r.ret THEN Finish("upd_clear_failed")
             ELSE IF w.deleted = Len(w.files_to_delete) THEN Cleared(w)
             ELSE wf' = w /\ pc' = "delete" /\ Silent
    /\ UNCHANGED <<now, Session, upload_counter, ev>>

\* one delete_file call of the deletion loop
Delete(okUser, ok) ==
    /\ pc = "delete"
    /\ LET item == wf.files_to_delete[wf.deleted + 1]
           r == delete_file(G(calls), wf.repo_name, item.path, item.sha, okUser, ok)
           w == [wf EXCEPT !.deleted = @ + 1]
       IN /\ Commit(r.g)
          /\ IF ~r.ret THEN Finish("upd_clear_failed")
             ELSE IF w.deleted = Len(w.files_to_delete) THEN Cleared(w)
             ELSE wf' = w /\ pc' = "delete" /\ Silent
    /\ UNCHANGED <<now, Session, upload_counter, ev>>

\* the create workflow writing README.md before it creates the repository
Create_ReadmeFirst(ok) ==
    /\ pc = "create"
    /\ LET r == create_repository(G(calls), wf.repo_name, ok)
           w == [wf EXCEPT !.tree = WithReadme(wf.tree, wf.use_template, "basic_upload"),
                           !.readme_content =
                               ReadmeContent(wf.tree, wf.use_template, "basic_upload")]
       IN /\ Commit(r.g)
          /\ IF ~r.ret
             THEN Edit("create_failed") /\ pc' = "done" /\ wf' = [w EXCEPT !.temp_dir = FALSE]
             ELSE Edit("up_uploading") /\ pc' = "walk" /\ wf' = w
    /\ UNCHANGED <<now, Session, upload_counter, ev>>

\* the create workflow going on whatever create_repository returned
Create_IgnoresFailure(ok) ==
    /\ pc = "create"
    /\ LET r == create_repository(G(calls), wf.repo_name, ok) IN
          /\ Commit(r.g)
          /\ Prepare(wf, "basic_upload", "up_uploading")
    /\ UNCHANGED <<now, Session, upload_counter, ev>>

\* create_repository of the create workflow
Create(ok) ==
    /\ pc = "create"
    /\ LET r == create_repository(G(calls), wf.repo_name, ok) IN
          /\ Commit(r.g)
          /\ IF ~r.ret THEN Finish("create_failed")
             ELSE Prepare(wf, "basic_upload", "up_uploading")
    /\ UNCHANGED <<now, Session, upload_counter, ev>>

\* the counter counting refreshes too
Uploaded_CountsRefresh(success) ==
    /\ upload_counter' = IF success THEN upload_counter + 1 ELSE upload_counter
    /\ Finish(IF wf.kind = "upload"
              THEN (IF success THEN "up_success" ELSE "up_failed")
              ELSE (IF success THEN "upd_success" ELSE "upd_failed"))

\* upload_files returned success to its workflow
Uploaded(success) ==
    /\ upload_counter' = IF wf.kind = "upload" /\ success THEN upload_counter + 1
                         ELSE upload_counter
    /\ Finish(IF wf.kind = "upload"
              THEN (IF success THEN "up_success" ELSE "up_failed")
              ELSE (IF success THEN "upd_success" ELSE "upd_failed"))

\* upload_files up to its loop: the login, then os.walk
Walk(okUser, order) ==
    /\ pc = "walk"
    /\ LET u == get_username(G(calls), okUser) IN
          /\ Commit(u.g)
          /\ IF u.ret = None \/ order = <<>> THEN Uploaded(FALSE)
             ELSE /\ wf' = [wf EXCEPT !.files_to_upload = order, !.success_count = 0]
                  /\ pc' = "put"
                  /\ Silent
                  /\ UNCHANGED upload_counter
    /\ UNCHANGED <<now, Session, ev>>

\* the upload loop ending at the first put that fails
Put_FailFast(ok) ==
    /\ pc = "put"
    /\ LET path == Head(wf.files_to_upload)
           r == put_file(G(calls), wf.repo_name, path, wf.tree[path], ok)
           w == [wf EXCEPT !.files_to_upload = Tail(@),
                           !.success_count = IF r.ret THEN @ + 1 ELSE @]
       IN /\ Commit(r.g)
          /\ IF ~r.ret THEN Uploaded(FALSE)
             ELSE IF w.files_to_upload = <<>> THEN Uploaded(w.success_count > 0)
             ELSE wf' = w /\ pc' = "put" /\ Silent /\ UNCHANGED upload_counter
    /\ UNCHANGED <<now, Session, ev>>

\* one session.put of the upload loop
Put(ok) ==
    /\ pc = "put"
    /\ LET path == Head(wf.files_to_upload)
           r == put_file(G(calls), wf.repo_name, path, wf.tree[path], ok)
           w == [wf EXCEPT !.files_to_upload = Tail(@),
                           !.success_count = IF r.ret THEN @ + 1 ELSE @]
       IN /\ Commit(r.g)
          /\ IF w.files_to_upload = <<>> THEN Uploaded(w.success_count > 0)
             ELSE wf' = w /\ pc' = "put" /\ Silent /\ UNCHANGED upload_counter
    /\ UNCHANGED <<now, Session, ev>>

\* The application is done with the event and waits for the next one; what
\* was recorded about the event is dropped.
NextEvent ==
    /\ pc = "done"
    /\ pc' = "idle"
    /\ ev' = NoEvent
    /\ sent' = 0
    /\ status' = None
    /\ calls' = <<>>
    /\ wf' = WfIdle
    /\ UNCHANGED <<now, Session, upload_counter, Remote>>

\* Time passes.  The clock is read by the gate alone, at the start of a
\* handler, so the time that passes while a handler runs is let pass once it
\* has returned.
Tick ==
    /\ pc = "idle"
    /\ now < MaxTime
    /\ now' = now + 1
    /\ UNCHANGED <<Session, upload_counter, Remote, pc, ev, sent, status, calls, wf>>

----------------------------------------------------------------------------
(* The system *)

\* what the repository demo holds when the bot starts
InitialFiles ==
    {EmptyDict,
     (<<"old.txt">> :> "old"),
     (README :> "sha1") @@ (<<"src", "x.py">> :> "sha2") @@ (<<"src", "lib", "y.py">> :> "sha3")}

Init ==
    /\ now = rate_limit_seconds
    /\ last_message_time = EmptyDict
    /\ user_data = [u \in Users |-> EmptyDict]
    /\ upload_counter = 0
    /\ username = None
    /\ repos = {Demo, Tmpl}
    /\ \E fs \in InitialFiles :
           files = [r \in RepoNames |-> IF r = Demo THEN fs ELSE EmptyDict]
    /\ pc = "idle"
    /\ ev = NoEvent
    /\ sent = 0
    /\ status = None
    /\ calls = <<>>
    /\ wf = WfIdle

Next ==
    \/ Tick
    \/ NextEvent
    \/ \E u \in Users : start_command(u)
    \/ \E u \in Users : help_command(u)
    \/ \E u \in Users, a \in UploadArgs : upload_command(u, a)
    \/ \E u \in Users : info_command(u)
    \/ \E u \in Users, a \in NameArgs : delete_command(u, a)
    \/ \E u \in Users, a \in NameArgs : private_command(u, a)
    \/ \E u \in Users, a \in NameArgs : public_command(u, a)
    \/ \E u \in Users, a \in NameArgs : project_info_command(u, a)
    \/ \E u \in Users, a \in UpdRepoArgs : update_repo_command(u, a)
    \/ \E u \in Users, t \in Texts : handle_message(u, t)
    \/ \E u \in Users, d \in Documents : handle_document(u, d)
    \/ \E ok \in BOOLEAN : GetFile(ok)
    \/ \E okFile, ok \in BOOLEAN : Download(okFile, ok)
    \/ Extract
    \/ \E okUser, ok \in BOOLEAN :
           \E l \in Listings(G(calls), wf.repo_name, wf.pending) : Find(okUser, ok, l)
    \/ \E okUser, ok \in BOOLEAN : Delete(okUser, ok)
    \/ \E ok \in BOOLEAN : Create(ok)
    \/ \E okUser \in BOOLEAN : \E o \in WalkSeqs(wf.tree, <<>>) : Walk(okUser, o)
    \/ \E ok \in BOOLEAN : Put(ok)

Spec == Init /\ [][Next]_vars

\* a step of a running archive workflow: the answer to the await at which the
\* handler is suspended
WorkflowStep ==
    \/ \E ok \in BOOLEAN : GetFile(ok)
    \/ \E okFile, ok \in BOOLEAN : Download(okFile, ok)
    \/ Extract
    \/ \E okUser, ok \in BOOLEAN :
           \E l \in Listings(G(calls), wf.repo_name, wf.pending) : Find(okUser, ok, l)
    \/ \E okUser, ok \in BOOLEAN : Delete(okUser, ok)
    \/ \E ok \in BOOLEAN : Create(ok)
    \/ \E okUser \in BOOLEAN : \E o \in WalkSeqs(wf.tree, <<>>) : Walk(okUser, o)
    \/ \E ok \in BOOLEAN : Put(ok)

----------------------------------------------------------------------------
(* Extraction and layout normalization on their own: a workflow stands      *)
(* before its extraction step with an archive drawn from every tree of up   *)
(* to MaxEntries members.                                                   *)

\* the most files and directories an archive of this part names
MaxEntries == 4

\* the names of archive members
TreeNames == {"D", "f", "g"}

\* tree, and tree with one more file or directory, at the top or in one of
\* its directories
Grow(tree) ==
    {tree} \cup
    {tree @@ (p :> k) :
        p \in {Append(d, n) : d \in {<<>>} \cup {q \in DOMAIN tree : tree[q] = "dir"},
                              n \in TreeNames} \ DOMAIN tree,
        k \in {"dir", "data"}}

RECURSIVE TreesUpTo(_)
TreesUpTo(n) == IF n = 0 THEN {EmptyDict} ELSE UNION {Grow(t) : t \in TreesUpTo(n - 1)}

MemberArchives ==
    {InvalidArchive} \cup [bad : {FALSE}, root : BOOLEAN, tree : TreesUpTo(MaxEntries)]

\* a workflow of either kind has fetched the owner's archive into temp_dir
ExtractInit ==
    /\ now = rate_limit_seconds
    /\ last_message_time = (OWNER_ID :> rate_limit_seconds)
    /\ user_data = [u \in Users |-> EmptyDict]
    /\ upload_counter = 0
    /\ repos = {Demo, Tmpl}
    /\ files = [r \in RepoNames |-> EmptyDict]
    /\ pc = "extract"
    /\ sent = 1
    /\ calls = <<>>
    /\ \E a \in MemberArchives, kind \in {"upload", "update"} :
           /\ ev = Event(OWNER_ID, "document", <<>>, Doc(<<"demo", ".zip">>, 50 * 1024, a))
           /\ username = IF kind = "update" THEN Login ELSE None
           /\ status = IF kind = "update" THEN "upd_extracting" ELSE "up_extracting"
           /\ wf = [WfIdle EXCEPT !.kind = kind, !.repo_name = Demo, !.temp_dir = TRUE]

Normalization == ExtractInit /\ [][Extract]_vars

----------------------------------------------------------------------------
(* The description step on its own: a create workflow stands before its     *)
(* create_repository call with a staged project drawn from the projects of  *)
(* up to MaxFiles files.                                                    *)

\* the most files a project of this part holds
MaxFiles == 3

GenPaths ==
    {<<"package.json">>, <<"requirements.txt">>, <<"manage.py">>, <<"main.py">>,
     <<"util.py">>, <<"Main.java">>, <<"x.c">>, <<"y.go">>, <<"z.rs">>, <<"i.php">>,
     <<"r.rb">>, <<"src", "util.py">>, <<"src", "lib", "y.py">>,
     <<"docs", "package.json">>}

\* the tree that holds the files fs, package.json at the root with content pkg
ProjectTree(fs, pkg) ==
    [p \in fs \cup UNION {{SubSeq(q, 1, n) : n \in 1..(Len(q) - 1)} : q \in fs} |->
        IF p \notin fs THEN "dir"
        ELSE IF p = <<"package.json">> THEN pkg
        ELSE "data"]

ProjectArchives ==
    {Zip(ProjectTree(fs, pkg)) :
        fs \in {x \in SUBSET GenPaths : Cardinality(x) <= MaxFiles},
        pkg \in PackageJsons}

\* a create workflow has staged the owner's archive
GenerateInit ==
    /\ now = rate_limit_seconds
    /\ last_message_time = (OWNER_ID :> rate_limit_seconds)
    /\ user_data = [u \in Users |-> EmptyDict]
    /\ upload_counter = 0
    /\ username = None
    /\ repos = {Demo, Tmpl}
    /\ files = [r \in RepoNames |-> EmptyDict]
    /\ pc = "create"
    /\ sent = 1
    /\ status = "up_creating"
    /\ calls = <<>>
    /\ \E a \in {x \in ProjectArchives : ~StagingFails(x)}, t \in BOOLEAN :
           /\ ev = Event(OWNER_ID, "document", <<>>,
                         Doc(<<"a", ".zip", "b", ".zip">>, 50 * 1024, a))
           /\ wf = [WfIdle EXCEPT !.kind = "upload", !.repo_name = AB, !.temp_dir = TRUE,
                                  !.use_template = t, !.tree = Staged(a)]

GenerateNext == \E ok \in BOOLEAN : Create(ok)

Generation == GenerateInit /\ [][GenerateNext]_vars

----------------------------------------------------------------------------
(* The archive workflows from their start to their end: handle_document    *)
(* has accepted the owner's document for an armed session and stands at    *)
(* its first await.                                                         *)

\* the documents handle_document starts a create workflow for
CreateDocuments ==
    {d \in Documents : EndsWithZip(d.file_name) /\ d.file_size <= MAX_FILE_SIZE}

\* the session an accepted /upload leaves
UploadSessions == {UploadArmed(EmptyDict, a) : a \in UploadArgs}

\* the session an accepted /upd_repo leaves when it found the repository
UpdateSessions ==
    {UpdateArmed(EmptyDict, a, TRUE) : a \in {x \in UpdRepoArgs : x # <<>> /\ x[1] \in RepoNames}}

\* The target of a refresh existed when /upd_repo looked for it, and the
\* login was cached by that lookup; the repository may have been deleted
\* since.
WorkflowInit ==
    /\ now = rate_limit_seconds
    /\ last_message_time = (OWNER_ID :> rate_limit_seconds)
    /\ user_data = [u \in Users |-> EmptyDict]
    /\ upload_counter = 0
    /\ sent = 1
    /\ calls = <<>>
    /\ \E fs \in InitialFiles, gone \in BOOLEAN :
           /\ repos = IF gone THEN {Tmpl} ELSE {Demo, Tmpl}
           /\ files = [r \in RepoNames |-> IF r = Demo /\ ~gone THEN fs ELSE EmptyDict]
    /\ \/ \E d \in UploadSessions, doc \in CreateDocuments :
              /\ username \in {None, Login}
              /\ ev = [Event(OWNER_ID, "document", <<>>, doc) EXCEPT !.session = d]
              /\ status = "up_downloading"
              /\ pc = "get_file"
              /\ wf = [WfIdle EXCEPT !.kind = "upload",
                                     !.repo_name = ReplaceZip(doc.file_name),
                                     !.use_template = d["use_template"]]
       \/ \E d \in UpdateSessions, doc \in Documents :
              /\ username = Login
              /\ ev = [Event(OWNER_ID, "document", <<>>, doc) EXCEPT !.session = d]
              /\ status = "upd_downloading"
              /\ pc = "download"
              /\ wf = [WfIdle EXCEPT !.kind = "update",
                                     !.remote_before = files[d["update_repo_name"]],
                                     !.repo_name = d["update_repo_name"],
                                     !.use_template = d["use_template"]]

\* Every call to the chat server and to the remote returns, with success or
\* with failure: a suspended handler is resumed.
Termination == WorkflowInit /\ [][WorkflowStep]_vars /\ WF_vars(WorkflowStep)

----------------------------------------------------------------------------
(* The bulk upload on its own: a create workflow has created its repository *)
(* and stands before upload_files with its staged project.                  *)

\* an archive whose README.md is a directory, next to an empty directory
ReadmeDirZip == Zip((README :> "dir") @@ (<<"docs">> :> "dir"))

UploadArchives == {a \in Archives \cup {ReadmeDirZip} : ~StagingFails(a)}

UploadInit ==
    /\ now = rate_limit_seconds
    /\ last_message_time = (OWNER_ID :> rate_limit_seconds)
    /\ user_data = [u \in Users |-> EmptyDict]
    /\ upload_counter = 0
    /\ username \in {None, Login}
    /\ repos = {Demo, Tmpl, AB}
    /\ files = [r \in RepoNames |-> EmptyDict]
    /\ pc = "walk"
    /\ sent = 1
    /\ status = "up_uploading"
    /\ calls = <<Call("create", AB, <<>>, None, TRUE)>>
    /\ \E a \in UploadArchives, d \in UploadSessions :
           /\ ~ReadmeWriteFails(Staged(a), d["use_template"])
           /\ ev = [Event(OWNER_ID, "document", <<>>,
                          Doc(<<"a", ".zip", "b", ".zip">>, 50 * 1024, a))
                        EXCEPT !.session = d]
           /\ wf = [WfIdle EXCEPT
                       !.kind = "upload", !.repo_name = AB, !.temp_dir = TRUE,
                       !.use_template = d["use_template"],
                       !.tree = WithReadme(Staged(a), d["use_template"], "basic_upload"),
                       !.readme_content =
                           ReadmeContent(Staged(a), d["use_template"], "basic_upload")]

UploadNext ==
    \/ \E okUser \in BOOLEAN : \E o \in WalkSeqs(wf.tree, <<>>) : Walk(okUser, o)
    \/ \E ok \in BOOLEAN : Put(ok)

Upload == UploadInit /\ [][UploadNext]_vars

----------------------------------------------------------------------------
(* Properties *)

Owner == OWNER_ID

\* the step takes an event from the queue and runs its handler's first part
Begins == pc = "idle" /\ pc' # "idle"

DeleteCalls == SelectSeq(calls, LAMBDA c : c.op = "delete_file")

PutCalls == SelectSeq(calls, LAMBDA c : c.op = "put_file")

\* C1: an event whose caller is not the owner gets no reply, causes no
\* remote call, and leaves the sessions, the rate-limiter map, the upload
\* counter and the remote as they were; its handler returns at once.
C1_NonOwnerIgnored ==
    [][(Begins /\ ev'.user # Owner) =>
          /\ sent' = 0
          /\ calls' = <<>>
          /\ pc' = "done"
          /\ UNCHANGED <<user_data, last_message_time, upload_counter, Remote, wf>>]_vars

\* a stranger's archive has been ignored while the owner's session is armed
C1_Witness ==
    /\ pc = "done"
    /\ ev.user = Owner + 1
    /\ ev.kind = "document"
    /\ "mode" \in DOMAIN user_data[Owner]

\* C2: an owner event less than rate_limit_seconds after the last accepted
\* one is dropped without a reply and does not move the timestamp; one that
\* comes rate_limit_seconds or more after it is accepted, and its time is the
\* new timestamp from the first step of its handling on.
C2_Cooldown ==
    [][(Begins /\ ev'.user = Owner) =>
          LET last == IF Owner \in DOMAIN last_message_time
                      THEN last_message_time[Owner] ELSE 0
          IN IF now - last < rate_limit_seconds
             THEN /\ sent' = 0
                  /\ calls' = <<>>
                  /\ pc' = "done"
                  /\ UNCHANGED <<user_data, last_message_time, upload_counter, Remote>>
             ELSE /\ sent' = 1
                  /\ Owner \in DOMAIN last_message_time'
                  /\ last_message_time'[Owner] = now]_vars

\* an owner event was dropped one second after an accepted one
C2_Witness ==
    /\ pc = "done"
    /\ ev.user = Owner
    /\ sent = 0
    /\ Owner \in DOMAIN last_message_time
    /\ now = last_message_time[Owner] + 1

\* C3: no delete-file call is issued before the traversal has finished (no
\* listing is asked for after a delete, and nothing is left to list), and the
\* files are deleted in the order in which they were discovered.
C3_DeleteAfterTraversal ==
    /\ \A i, j \in 1..Len(calls) :
           (i < j /\ calls[i].op = "delete_file") => calls[j].op # "get_tree"
    /\ (DeleteCalls # <<>> \/ pc = "delete") => wf.stack = <<>>
    /\ pc = "find" => DeleteCalls = <<>>
    /\ Len(DeleteCalls) <= Len(wf.files_to_delete)
    /\ \A i \in 1..Len(DeleteCalls) :
           /\ DeleteCalls[i].path = wf.files_to_delete[i].path
           /\ DeleteCalls[i].repo = wf.repo_name

\* three files found in three listings have been deleted
C3_Witness ==
    /\ Len(DeleteCalls) = 3
    /\ Len(SelectSeq(calls, LAMBDA c : c.op = "get_tree")) = 3

\* C4: when the delete of the k-th discovered file is the first to fail,
\* it is the last delete call, k calls were made, for the first k files,
\* the files after it are untouched, and the workflow ends with the
\* clearing-failed status (clear_repository_contents returned False).
C4_StopAtFirstFailure ==
    \A k \in 1..Len(DeleteCalls) :
        ~DeleteCalls[k].ok =>
            /\ k = Len(DeleteCalls)
            /\ calls[Len(calls)] = DeleteCalls[k]
            /\ \A i \in 1..k : DeleteCalls[i].path = wf.files_to_delete[i].path
            /\ \A i \in (k + 1)..Len(wf.files_to_delete) :
                   /\ wf.files_to_delete[i].path \in DOMAIN files[wf.repo_name]
                   /\ \A j \in 1..k : DeleteCalls[j].path # wf.files_to_delete[i].path
            /\ pc = "done"
            /\ status = "upd_clear_failed"

\* the second of three deletes failed
C4_Witness ==
    /\ Len(wf.files_to_delete) = 3
    /\ Len(DeleteCalls) = 2
    /\ DeleteCalls[1].ok
    /\ ~DeleteCalls[2].ok

\* C5 (as claimed): when a refresh workflow issues its first put-file call,
\* none of the files the repository held when the workflow started is
\* still there.
C5_PriorFilesGoneBeforeUpload ==
    (wf.kind = "update" /\ pc = "put" /\ PutCalls = <<>>) =>
        \A p \in DOMAIN wf.remote_before : p \notin DOMAIN files[wf.repo_name]

\* C6: once a delete-file call has failed, the refresh is aborted: it ends
\* with the clearing-failed status, the staged project is as staging left it
\* (no README.md was written into it), no put-file call is issued, and the
\* files deleted so far stay deleted; with the success status, no delete
\* call has failed.
C6_AbortOnClearFailure ==
    /\ (\E k \in 1..Len(DeleteCalls) : ~DeleteCalls[k].ok) =>
           /\ pc = "done"
           /\ status = "upd_clear_failed"
           /\ wf.tree = Staged(ev.doc.archive)
           /\ PutCalls = <<>>
           /\ \A k \in 1..Len(DeleteCalls) :
                  DeleteCalls[k].ok => DeleteCalls[k].path \notin DOMAIN files[wf.repo_name]
    /\ status = "upd_clear_failed" => \E k \in 1..Len(DeleteCalls) : ~DeleteCalls[k].ok
    /\ status = "upd_success" => \A k \in 1..Len(DeleteCalls) : DeleteCalls[k].ok

\* a refresh was aborted after one file had been deleted, for an archive
\* that brings no README.md
C6_Witness ==
    /\ status = "upd_clear_failed"
    /\ Len(DeleteCalls) = 2
    /\ README \notin DOMAIN wf.tree
    /\ DOMAIN files[wf.repo_name] # DOMAIN wf.remote_before

\* the owner's document event was accepted
AcceptedDocument == ev.kind = "document" /\ ev.user = Owner /\ sent > 0

\* C7 (as claimed): after the owner's accepted document event has been
\* handled, the session holds no mode, no target name and no description
\* mode.
C7_SessionIdleAfterDocument ==
    (AcceptedDocument /\ pc = "done") => user_data[Owner] = EmptyDict

\* C7 (amended): after the owner's accepted document event, the session is
\* empty when the document started a workflow or met an armed refresh
\* without a target; a create session whose document was turned down for
\* its name or size is still armed; and with no mode armed there is still
\* no mode and no target name.
C7_SessionAfterDocument ==
    AcceptedDocument =>
        IF status \in {"zip_only", "too_large"}
        THEN /\ "mode" \in DOMAIN user_data[Owner]
             /\ user_data[Owner]["mode"] = "upload"
             /\ "use_template" \in DOMAIN user_data[Owner]
        ELSE IF status = "arm_first"
        THEN DOMAIN user_data[Owner] \subseteq {"use_template"}
        ELSE user_data[Owner] = EmptyDict

\* a document that is no .zip was turned down and the create mode is still
\* armed
C7_Witness ==
    /\ AcceptedDocument
    /\ pc = "done"
    /\ status = "zip_only"
    /\ user_data[Owner]["mode"] = "upload"

\* C8 (as claimed): an accepted document for an armed session whose name
\* does not end in .zip or whose size is over the cap is turned down with a
\* reply before anything is downloaded, extracted or asked of the remote.
C8_InvalidDocumentRejected ==
    (/\ AcceptedDocument
     /\ status # "arm_first"
     /\ (~EndsWithZip(ev.doc.file_name) \/ ev.doc.file_size > MAX_FILE_SIZE)) =>
        /\ status \in {"zip_only", "too_large"}
        /\ pc = "done"
        /\ calls = <<>>
        /\ ~wf.temp_dir

\* the existence check of the upd_repo command being handled found the
\* repository
FoundRepo == \E i \in 1..Len(calls) : calls[i].op = "get_repo" /\ calls[i].ok

\* C9: an accepted upd_repo command whose existence check does not find the
\* repository (as for every name that does not exist) gets the not-found
\* reply and leaves no mode and no target name; after the command the
\* refresh mode is armed only when the check found the named repository.
C9_UpdRepoChecksExistence ==
    (ev.kind = "upd_repo" /\ sent > 0 /\ ev.args # <<>>) =>
        /\ pc = "done"
        /\ ev.args[1] \notin repos => ~FoundRepo
        /\ ~FoundRepo =>
              /\ status = "not_found"
              /\ "mode" \notin DOMAIN user_data[Owner]
              /\ "update_repo_name" \notin DOMAIN user_data[Owner]
        /\ "mode" \in DOMAIN user_data[Owner] =>
              /\ FoundRepo
              /\ user_data[Owner]["mode"] = "update"
              /\ user_data[Owner]["update_repo_name"] = ev.args[1]
              /\ ev.args[1] \in repos

\* upd_repo named a repository that does not exist, with a use_template
\* flag left in the session by the command that had armed it
C9_Witness ==
    /\ ev.kind = "upd_repo"
    /\ status = "not_found"
    /\ ev.args[1] \notin repos
    /\ "use_template" \in DOMAIN user_data[Owner]

Mutating == {"create", "delete_repo", "delete_file", "put_file"}

\* C11 (as claimed): when a create workflow has ended with its success
\* status, every file of the staged project, README.md included, was stored
\* by a put-file call that succeeded.
C11_SuccessMeansAllUploaded ==
    (pc = "done" /\ status = "up_success") =>
        \A p \in DOMAIN wf.tree :
            wf.tree[p] # "dir" =>
                \E i \in 1..Len(PutCalls) : PutCalls[i].path = p /\ PutCalls[i].ok

\* C12: temp_dir exists from the download to the last step of a workflow
\* and is gone when the handler has returned, whatever the way out.
C12_TempDirRemoved ==
    /\ pc \in {"idle", "done", "get_file", "download"} => ~wf.temp_dir
    /\ pc \in {"extract", "find", "delete", "create", "walk", "put"} => wf.temp_dir

\* every way out of a workflow that had made its temp_dir: a fault on a bad
\* archive, a failed create, a failed clearing, a failed and a successful
\* upload
C12_Witness ==
    /\ pc = "done"
    /\ ~wf.temp_dir
    /\ \/ wf.error = "BadZipFile"
       \/ status \in {"create_failed", "upd_clear_failed", "up_failed", "upd_success"}

\* C13: the first step of an accepted owner event sends one message, and no
\* later step of its handling sends another: the steps of a workflow change
\* the text of that message only.
C13_OneMessagePerEvent ==
    [][/\ (Begins /\ ev'.user = Owner /\ GatePasses(Owner)) =>
              (sent' = 1 /\ status' # None)
       /\ pc \notin {"idle", "done"} =>
              (sent = 1 /\ sent' = 1 /\ ev' = ev /\ status' # None)]_vars

\* a refresh went through all its progress texts to success with one message
C13_Witness ==
    /\ pc = "done"
    /\ status = "upd_success"
    /\ sent = 1
    /\ DeleteCalls # <<>>

\* C14: while and after a document that is no zip archive is handled, no
\* create-repository, delete-file or put-file call is issued, and once it
\* was downloaded the handler ends with the error status of its workflow.
C14_BadArchiveAborts ==
    (ev.kind = "document" /\ BadZipFile(ev.doc.archive)) =>
        /\ \A i \in 1..Len(calls) : calls[i].op \notin Mutating
        /\ pc \in {"done", "get_file", "download", "extract"}
        /\ wf.error \in {None, "TelegramError", "BadZipFile"}
        /\ wf.error = "BadZipFile" =>
               /\ pc = "done"
               /\ sent = 1
               /\ status = IF wf.kind = "update" THEN "upd_error" ELSE "up_error"

\* a refresh of a repository that holds files was given a file that is no
\* archive, and nothing was deleted
C14_Witness ==
    /\ pc = "done"
    /\ wf.kind = "update"
    /\ wf.error = "BadZipFile"
    /\ wf.remote_before # EmptyDict
    /\ files[wf.repo_name] = wf.remote_before

\* the top level of tree is one entry, and that a directory
OneTopDirectory(tree) ==
    \E p \in ListDir(tree, <<>>) : ListDir(tree, <<>>) = {p} /\ tree[p] = "dir"

\* what extractall left in extract_dir for the document being handled
Extracted == ArchiveTree(ev.doc.archive)

\* extraction and layout normalization are through and nothing else has
\* touched the staged project
Normalized == pc \in {"find", "create"}

\* the only entry of the top level of tree
Wrapper(tree) == CHOOSE p \in ListDir(tree, <<>>) : TRUE

\* the entries below the wrapper, each one level up
Hoisted(tree) == {Tail(p) : p \in {q \in DOMAIN tree : Len(q) > 1}}

\* C15 (as claimed): when the extracted root holds one entry, a directory,
\* normalization goes through and leaves exactly the entries that were
\* below that directory, each one level up and as it was.
C15_WrapperHoisted ==
    (pc # "extract" /\ ~BadZipFile(ev.doc.archive) /\ OneTopDirectory(Extracted)) =>
        /\ Normalized
        /\ DOMAIN wf.tree = Hoisted(Extracted)
        /\ \A p \in DOMAIN Extracted : Len(p) > 1 => wf.tree[Tail(p)] = Extracted[p]

\* C16: when the extracted root holds two or more entries, one file, or
\* nothing, the staged project is the extracted tree, entry for entry.
C16_FlatUnchanged ==
    (pc # "extract" /\ ~BadZipFile(ev.doc.archive) /\ ~OneTopDirectory(Extracted)) =>
        /\ wf.tree = Extracted
        /\ ExtractDirExists(ev.doc.archive) => Normalized

\* a root with a directory, a file in it, and a file next to it came
\* through unchanged
C16_Witness ==
    /\ Normalized
    /\ wf.tree = Extracted
    /\ Cardinality(ListDir(Extracted, <<>>)) = 2
    /\ \E p \in ListDir(Extracted, <<>>) : Extracted[p] = "dir" /\ ListDir(Extracted, p) # {}

\* C17 (as claimed): after normalization of an archive that is not empty,
\* the top level holds an entry and is not one single directory.
C17_NoEnclosingDirectory ==
    (Normalized /\ Extracted # EmptyDict) =>
        /\ ListDir(wf.tree, <<>>) # {}
        /\ ~OneTopDirectory(wf.tree)

\* C17 (amended): after normalization the top level is one single directory
\* only when the archive was one directory holding nothing but one
\* directory, and it is empty only when the archive held nothing or one
\* empty directory.
C17_OnePassOnly ==
    Normalized =>
        /\ OneTopDirectory(wf.tree) =>
               /\ OneTopDirectory(Extracted)
               /\ Cardinality(ListDir(Extracted, Wrapper(Extracted))) = 1
               /\ \A p \in ListDir(Extracted, Wrapper(Extracted)) : Extracted[p] = "dir"
        /\ ListDir(wf.tree, <<>>) = {} =>
               \/ Extracted = EmptyDict
               \/ OneTopDirectory(Extracted) /\ ListDir(Extracted, Wrapper(Extracted)) = {}

\* a wrapper holding a file and a directory was taken away
C17_Witness ==
    /\ Normalized
    /\ OneTopDirectory(Extracted)
    /\ Cardinality(ListDir(wf.tree, <<>>)) = 2
    /\ ~OneTopDirectory(wf.tree)

\* the archive is A/B/<files>: A alone at the root, B alone in A, a
\* directory of another name that holds something
DoublyNested(tree) ==
    /\ OneTopDirectory(tree)
    /\ LET A == Wrapper(tree) IN
          /\ Cardinality(ListDir(tree, A)) = 1
          /\ \A B \in ListDir(tree, A) :
                 /\ tree[B] = "dir"
                 /\ B[2] # A[1]
                 /\ ListDir(tree, B) # {}

C19_EmptyTreeCleared ==
    (wf.kind = "update" /\ wf.remote_before = EmptyDict) =>
        /\ DeleteCalls = <<>>
        /\ pc # "delete"
        /\ status # "upd_clear_failed"
        /\ (\E i \in 1..Len(calls) : calls[i].op = "get_tree") =>
               /\ Len(SelectSeq(calls, LAMBDA c : c.op = "get_tree")) = 1
               /\ pc \in {"walk", "put", "done"}
               /\ status \in {"upd_uploading", "upd_success", "upd_failed"}

\* the one listing of an empty repository was answered and the upload is next
C19_Witness ==
    /\ wf.kind = "update"
    /\ wf.remote_before = EmptyDict
    /\ pc = "walk"
    /\ Len(calls) = 1
    /\ calls[1].op = "get_tree"
    /\ calls[1].ok

\* a handler is suspended at a call to the remote
RemoteAwait ==
    \/ pc \in {"find", "delete", "create", "put"}
    \/ pc = "walk" /\ username = None

\* C20: while a call to the remote is awaited, the next step is the answer
\* to that call: the log grows by that one call, and no other event's
\* handler runs before it.
C20_OneCallInFlight ==
    [][RemoteAwait =>
          /\ ev' = ev
          /\ Len(calls') = Len(calls) + 1
          /\ SubSeq(calls', 1, Len(calls)) = calls]_vars

\* a refresh has issued its listing, two deletes and two puts one by one
C20_Witness ==
    /\ pc = "put"
    /\ Len(DeleteCalls) = 2
    /\ Len(PutCalls) = 1
    /\ Len(calls) >= 4

\* a call of the given kind is in the log of the event being handled
Called(op) == \E i \in 1..Len(calls) : calls[i].op = op

\* the staged project as extraction and normalization leave it
StagedProject == Staged(ev.doc.archive)

\* C21 (as claimed): in the create workflow README.md is in the staged
\* project by the time the create-repository call has been issued.
C21_DescriptionBeforeCreate ==
    (wf.kind = "upload" /\ Called("create")) => README \in DOMAIN wf.tree

\* C21 (amended): staging comes first; until the create-repository call has
\* succeeded (create) or the clearing is through (refresh) the staged project
\* is as staging left it and nothing is put; README.md is in place when the
\* bulk put starts; and no other remote call follows a put.
C21_StepOrder ==
    /\ pc \in {"get_file", "download", "extract"} =>
           (calls = <<>> /\ wf.tree = EmptyDict)
    /\ (pc \in {"find", "delete", "create"} \/ status \in {"create_failed", "upd_clear_failed"}) =>
           /\ wf.tree = StagedProject
           /\ wf.readme_content = NoReadme
           /\ PutCalls = <<>>
    /\ (pc \in {"walk", "put"} \/ PutCalls # <<>>) =>
           /\ README \in DOMAIN wf.tree
           /\ IF wf.kind = "upload"
              THEN \E i \in 1..Len(calls) : calls[i].op = "create" /\ calls[i].ok
              ELSE /\ wf.stack = <<>>
                   /\ Len(DeleteCalls) = Len(wf.files_to_delete)
                   /\ \A i \in 1..Len(DeleteCalls) : DeleteCalls[i].ok
    /\ \A i, j \in 1..Len(calls) :
           (i < j /\ calls[i].op = "put_file") => calls[j].op = "put_file"

\* a create-repository call failed for an archive that brings no README.md:
\* none was written
C21_Witness ==
    /\ wf.kind = "upload"
    /\ status = "create_failed"
    /\ Called("create")
    /\ README \notin DOMAIN wf.tree

\* C22 (as claimed): after an accepted upd_repo command has armed the
\* refresh mode, the description mode is templated exactly when an argument
\* after the name is the word template, and the target is the first argument.
C22_TemplateArgument ==
    (ev.kind = "upd_repo" /\ ev.user = Owner /\ status = "update_active") =>
        /\ user_data[Owner]["update_repo_name"] = ev.args[1]
        /\ user_data[Owner]["use_template"] =
               (\E i \in 2..Len(ev.args) : LowerWord(ev.args[i]) = <<"template">>)

\* C23: when the bulk put starts and from then on, README.md is at the top
\* of the staged project: the generated document in templated mode, the
\* archive's own README.md untouched in plain mode, and the fixed basic text
\* of the workflow when the archive brought none.
C23_ReadmeInPlace ==
    pc \in {"walk", "put"} =>
        /\ README \in DOMAIN wf.tree
        /\ \A p \in DOMAIN StagedProject : p # README => wf.tree[p] = StagedProject[p]
        /\ IF wf.use_template
           THEN wf.tree[README] = "template" /\ wf.readme_content.kind = "generated"
           ELSE IF README \in DOMAIN StagedProject
           THEN wf.tree[README] = StagedProject[README] /\ wf.readme_content = NoReadme
           ELSE /\ wf.tree[README] = IF wf.kind = "upload" THEN "basic_upload"
                                     ELSE "basic_update"
                /\ wf.readme_content.kind = wf.tree[README]

\* in templated mode the README.md of the archive was overwritten
C23_Witness ==
    /\ pc = "put"
    /\ wf.use_template
    /\ README \in DOMAIN StagedProject
    /\ StagedProject[README] = "own_readme"
    /\ wf.tree[README] = "template"

\* C24: del, priv, pblc, inp and upd_repo from the owner without an
\* argument get their usage reply, and no call to the remote is made.
C24_UsageWithoutArgument ==
    (/\ ev.kind \in {"del", "priv", "pblc", "inp", "upd_repo"}
     /\ ev.user = Owner
     /\ ev.args = <<>>
     /\ sent > 0) =>
        /\ pc = "done"
        /\ calls = <<>>
        /\ status = CASE ev.kind = "del" -> "usage_del"
                      [] ev.kind = "priv" -> "usage_priv"
                      [] ev.kind = "pblc" -> "usage_pblc"
                      [] ev.kind = "inp" -> "usage_inp"
                      [] OTHER -> "usage_upd_repo"

\* del without a name was answered with its usage text
C24_Witness ==
    /\ pc = "done"
    /\ ev.kind = "del"
    /\ ev.args = <<>>
    /\ sent = 1
    /\ status = "usage_del"

\* the status a handler shows when the call of kind op gave it the failure
\* value
FailureStatus(op) ==
    CASE op = "create" -> {"create_failed"}
      [] op = "list" -> {"no_repositories"}
      [] op = "get_repo" -> {"not_found"}
      [] op = "delete_repo" -> {"delete_failed"}
      [] op \in {"set_private", "set_public"} -> {"visibility_failed"}
      [] op = "delete_file" -> {"upd_clear_failed"}
      [] op = "put_file" -> {"up_failed", "upd_failed"}
      [] op = "get_user" -> {"delete_failed", "not_found", "up_failed", "upd_failed"}
      [] OTHER -> {"upd_uploading", "upd_success", "upd_failed", "upd_clear_failed"}

\* C25 (as claimed): when a call to the remote did not succeed, the handler
\* that made it ends, without a fault, with the status it shows for the
\* failure value of that operation.
C25_FailureIsAValue ==
    pc = "done" =>
        \A i \in 1..Len(calls) :
            ~calls[i].ok => (wf.error = None /\ status \in FailureStatus(calls[i].op))

\* C26: the keys of the rate-limiter map are none or the owner alone.
C26_OnlyOwnerKey == DOMAIN last_message_time \subseteq {Owner}

\* the owner is in the map and a stranger's event has been handled
C26_Witness ==
    /\ pc = "done"
    /\ ev.user = Owner + 1
    /\ DOMAIN last_message_time = {Owner}

\* C27 (as claimed): the generated document names the project type of the
\* first family that matches, every family being tried in turn.
C27_PriorityOrder ==
    (pc = "walk" /\ wf.use_template) =>
        wf.readme_content.project_type = _detect_project_type_NoFallThrough(StagedProject)

\* C28 (as claimed): the document lists the names of the top-level
\* directories that hold files, sorted, then the files of the root, sorted.
C28_TopLevelListing ==
    (pc = "walk" /\ wf.use_template) =>
        /\ wf.readme_content.structure.dirs =
               Sorted({<<p[1]>> : p \in {q \in ProjectFiles(StagedProject) : Len(q) > 1}})
        /\ wf.readme_content.structure.files =
               Sorted({p \in ProjectFiles(StagedProject) : Len(p) = 1})

\* the names a parseable package.json at the root declares
DeclaredAtRoot ==
    IF <<"package.json">> \in ProjectFiles(StagedProject)
    THEN Declared(StagedProject[<<"package.json">>])
    ELSE {}

\* C29 (as claimed): next to the frameworks that files indicate, the
\* document names for each declared dependency the framework of the first
\* table entry found in its name, and no other.
C29_FirstMatchPerDependency ==
    (pc = "walk" /\ wf.use_template) =>
        wf.readme_content.frameworks =
            Indicated(StagedProject) \cup FromPackage_FirstMatch(StagedProject)

\* C29 (amended): the document names the framework of every table entry
\* whose key is found in the name of some declared dependency, and next to
\* the frameworks that files indicate no other.
C29_EveryMatchingEntry ==
    (pc = "walk" /\ wf.use_template) =>
        /\ \A dep \in DeclaredAtRoot : \A i \in 1..Len(framework_packages) :
               InName(PackageKey(i), dep) =>
                   framework_packages[i][PackageKey(i)] \in wf.readme_content.frameworks
        /\ \A fw \in wf.readme_content.frameworks \ Indicated(StagedProject) :
               \E dep \in DeclaredAtRoot : \E i \in 1..Len(framework_packages) :
                   InName(PackageKey(i), dep) /\ framework_packages[i][PackageKey(i)] = fw

\* react-bootstrap gave both React and Bootstrap
C29_Witness ==
    /\ pc = "walk"
    /\ wf.use_template
    /\ <<"react", "-", "bootstrap">> \in DeclaredAtRoot
    /\ {"React", "Bootstrap"} \subseteq wf.readme_content.frameworks

\* C30: every delete-file call carries the path and the hash of one entry
\* of this run's traversal, the hash being the one the repository held for
\* that path when the run started.
C30_DeleteCarriesRecordedHash ==
    \A i \in 1..Len(DeleteCalls) :
        /\ i <= Len(wf.files_to_delete)
        /\ DeleteCalls[i].path = wf.files_to_delete[i].path
        /\ DeleteCalls[i].sha = wf.files_to_delete[i].sha
        /\ DeleteCalls[i].path \in DOMAIN wf.remote_before
        /\ DeleteCalls[i].sha = wf.remote_before[DeleteCalls[i].path]

\* three files of three different hashes have been deleted
C30_Witness ==
    /\ Len(DeleteCalls) = 3
    /\ \A i \in 1..3 : DeleteCalls[i].ok
    /\ Cardinality({DeleteCalls[i].sha : i \in 1..3}) = 3

\* the texts a workflow shows when it is over: success, a recognized
\* failure, the fault reply
TerminalStatus ==
    {"up_success", "upd_success", "create_failed", "upd_clear_failed", "up_failed",
     "upd_failed", "up_error", "upd_error"}

\* C31: the traversal of the remote tree comes to an end, and a workflow that
\* was started comes to its end, where it shows a terminal status: success,
\* a recognized failure or the fault reply.
C31_WorkflowTerminates ==
    /\ (pc = "find") ~> (pc # "find")
    /\ (pc \notin {"idle", "done"}) ~> (pc = "done")
    /\ []((pc = "done" /\ wf.kind # "none") => status \in TerminalStatus)

\* a refresh that listed three directories and deleted three files came to
\* its success status
C31_Witness ==
    /\ pc = "done"
    /\ status = "upd_success"
    /\ Len(SelectSeq(calls, LAMBDA c : c.op = "get_tree")) = 3
    /\ Len(DeleteCalls) = 3

\* C32 (as claimed): the repository a create workflow names is the file name
\* of the document without its last piece, the .zip suffix, and otherwise as
\* it is.
C32_NameIsStem ==
    wf.kind = "upload" =>
        wf.repo_name = SubSeq(ev.doc.file_name, 1, Len(ev.doc.file_name) - 1)

\* C33: a session holds a target name exactly when its mode is refresh, and
\* no document is answered with the target-missing reply.
C33_TargetIffRefresh ==
    /\ \A u \in Users :
           ("update_repo_name" \in DOMAIN user_data[u]) <=>
               ("mode" \in DOMAIN user_data[u] /\ user_data[u]["mode"] = "update")
    /\ status # "missing_target"

\* /upload was accepted while a refresh was armed: the target went with the
\* mode
C33_Witness ==
    /\ pc = "done"
    /\ ev.kind = "upload"
    /\ "update_repo_name" \in DOMAIN ev.session
    /\ user_data[Owner]["mode"] = "upload"
    /\ "update_repo_name" \notin DOMAIN user_data[Owner]

\* the mode of the session the handler of ev found
ModeFound == DictGet(ev.session, "mode", None)

\* C34: whatever was armed before, an accepted /upload leaves the create
\* mode and no target, and a successful /upd_repo X leaves the refresh mode
\* with target X; commands that do not arm leave the session alone; an
\* accepted document runs the workflow of the mode it finds: for create no
\* listing and no delete-file call, every call naming the new repository and
\* puts only after it was created; for refresh the stored target, no
\* create-repository call, and every call naming the target.
C34_LastWriterWins ==
    /\ []((ev.kind = "upload" /\ ev.user = Owner /\ sent > 0) =>
              /\ user_data[Owner]["mode"] = "upload"
              /\ "update_repo_name" \notin DOMAIN user_data[Owner])
    /\ []((ev.kind = "upd_repo" /\ ev.user = Owner /\ status = "update_active") =>
              /\ user_data[Owner]["mode"] = "update"
              /\ user_data[Owner]["update_repo_name"] = ev.args[1])
    /\ [][ev'.kind \notin {"upload", "upd_repo", "document"} =>
              user_data' = user_data]_vars
    /\ []((AcceptedDocument /\ ModeFound = "upload") =>
              /\ wf.kind \in {"upload", "none"}
              /\ wf.kind = "none" => (calls = <<>> /\ status \in {"zip_only", "too_large"})
              /\ ~Called("get_tree")
              /\ ~Called("delete_file")
              /\ \A i \in 1..Len(calls) : calls[i].repo \in {<<>>, wf.repo_name}
              /\ PutCalls # <<>> => (calls[1].op = "create" /\ calls[1].ok))
    /\ []((AcceptedDocument /\ ModeFound = "update") =>
              /\ wf.kind = "update"
              /\ wf.repo_name = ev.session["update_repo_name"]
              /\ ~Called("create")
              /\ \A i \in 1..Len(calls) : calls[i].repo \in {<<>>, wf.repo_name})

\* /upd_repo was accepted and found its repository while the create mode was
\* armed: the refresh mode is armed now
C34_Witness ==
    /\ pc = "done"
    /\ ev.kind = "upd_repo"
    /\ status = "update_active"
    /\ ModeFound = "upload"
    /\ user_data[Owner]["mode"] = "update"
    /\ user_data[Owner]["update_repo_name"] = ev.args[1]

\* the owner's session holds a mode
Armed == "mode" \in DOMAIN user_data[Owner]

\* C35: an accepted document that finds no mode is answered with the
\* arm-first reply and nothing else happens: no download, no extraction, no
\* call, the session as it was.  A step that starts a workflow takes the
\* mode out of the session, and a mode comes into the session only by an
\* accepted arming command: so the workflows started are no more than the
\* arming commands accepted.
C35_IdleDocumentStartsNothing ==
    /\ []((AcceptedDocument /\ ModeFound = None) =>
              /\ pc = "done"
              /\ sent = 1
              /\ status = "arm_first"
              /\ calls = <<>>
              /\ wf = WfIdle
              /\ user_data[Owner] = ev.session)
    /\ [][(pc = "idle" /\ pc' \notin {"idle", "done"}) =>
              (Armed /\ ~Armed' /\ ev'.kind = "document" /\ ev'.user = Owner)]_vars
    /\ [][(~Armed /\ Armed') =>
              (ev'.kind \in {"upload", "upd_repo"} /\ ev'.user = Owner /\ sent' = 1)]_vars

\* a valid archive came while nothing was armed
C35_Witness ==
    /\ pc = "done"
    /\ AcceptedDocument
    /\ ModeFound = None
    /\ status = "arm_first"
    /\ EndsWithZip(ev.doc.file_name)
    /\ ev.doc.archive = FlatZip

\* C36: an owner document turned down by the cooldown gets no reply, starts
\* nothing and leaves the session as it found it; the passing of time leaves
\* the session alone; and a document that is accepted runs the workflow of
\* the session it finds: its mode, its target and its description mode.
C36_DroppedDocumentKeepsSession ==
    /\ []((ev.kind = "document" /\ ev.user = Owner /\ sent = 0) =>
              /\ pc = "done"
              /\ user_data[Owner] = ev.session
              /\ calls = <<>>
              /\ wf = WfIdle)
    /\ [][now' # now => user_data' = user_data]_vars
    /\ []((AcceptedDocument /\ wf.kind # "none") =>
              /\ wf.kind = ModeFound
              /\ wf.use_template = ev.session["use_template"]
              /\ wf.kind = "update" => wf.repo_name = ev.session["update_repo_name"])

\* a document came too early for an armed refresh, which is still armed
C36_Witness ==
    /\ pc = "done"
    /\ ev.kind = "document"
    /\ ev.user = Owner
    /\ sent = 0
    /\ ModeFound = "update"
    /\ user_data[Owner] = ev.session

\* C37: an accepted upd_repo command without an argument, or whose lookup
\* does not find the repository, leaves no mode and no target in the
\* session, whatever was armed; and a document that finds no mode gets the
\* arm-first reply.
C37_FailedUpdRepoDisarms ==
    /\ (ev.kind = "upd_repo" /\ ev.user = Owner /\ sent > 0
            /\ (ev.args = <<>> \/ ~FoundRepo)) =>
           /\ status = IF ev.args = <<>> THEN "usage_upd_repo" ELSE "not_found"
           /\ ~Armed
           /\ "update_repo_name" \notin DOMAIN user_data[Owner]
    /\ (AcceptedDocument /\ ~("mode" \in DOMAIN ev.session)) =>
           (pc = "done" /\ status = "arm_first")

\* upd_repo without an argument came while a create was armed, and nothing
\* is armed now
C37_Witness ==
    /\ pc = "done"
    /\ ev.kind = "upd_repo"
    /\ ev.args = <<>>
    /\ status = "usage_upd_repo"
    /\ ModeFound = "upload"
    /\ ~Armed

\* the files of the staged project
StagedFiles == {p \in DOMAIN wf.tree : wf.tree[p] # "dir"}

\* C38: when the bulk upload has returned, no put-file call was made if the
\* login could not be resolved; otherwise one call was made for each file of
\* the staged project, failed calls among them or not, and the upload
\* succeeded exactly when one of the calls did.  While the loop runs, the
\* calls made and the files still to go are the files of the project.
C38_NotFailFast ==
    /\ pc = "put" =>
           /\ Len(PutCalls) + Len(wf.files_to_upload) = Cardinality(StagedFiles)
           /\ wf.files_to_upload # <<>>
    /\ (pc = "done" /\ status \in {"up_success", "upd_success", "up_failed", "upd_failed"}) =>
           IF username = None
           THEN PutCalls = <<>> /\ status \in {"up_failed", "upd_failed"}
           ELSE /\ Len(PutCalls) = Cardinality(StagedFiles)
                /\ {PutCalls[i].path : i \in 1..Len(PutCalls)} = StagedFiles
                /\ (status \in {"up_success", "upd_success"}) <=>
                       (\E i \in 1..Len(PutCalls) : PutCalls[i].ok)

\* the first put failed, the loop went on through the other files, and the
\* last put made the upload a success
C38_Witness ==
    /\ pc = "done"
    /\ status = "up_success"
    /\ Len(PutCalls) = 3
    /\ ~PutCalls[1].ok
    /\ ~PutCalls[2].ok
    /\ PutCalls[3].ok

\* the create-repository call of the create workflow did not succeed
CreateFailed ==
    wf.kind = "upload" /\ \E i \in 1..Len(calls) : calls[i].op = "create" /\ ~calls[i].ok

\* C39: when the create-repository call of a create workflow does not
\* succeed, the workflow is over with the create-failed status: the staged
\* project is as staging left it, with no README.md written into it; the
\* failed call is the only call made, so nothing was put; and the step that
\* got the failure left the upload counter and the remote as they were.
C39_CreateFailureStops ==
    /\ [](CreateFailed =>
              /\ pc = "done"
              /\ status = "create_failed"
              /\ wf.tree = StagedProject
              /\ wf.readme_content = NoReadme
              /\ Len(calls) = 1
              /\ PutCalls = <<>>)
    /\ [](status = "create_failed" => CreateFailed)
    /\ [][(pc = "create" /\ CreateFailed') =>
              UNCHANGED <<upload_counter, repos, files>>]_vars

\* demo.zip came for a create while the repository demo exists and holds
\* files: the create failed, and demo is as it was
C39_Witness ==
    /\ CreateFailed
    /\ status = "create_failed"
    /\ wf.repo_name = Demo
    /\ Demo \in repos
    /\ calls[1].ok = FALSE
    /\ files[Demo] # EmptyDict
    /\ README \notin DOMAIN wf.tree

====
